---------------------------- MODULE Spec2Model ----------------------------
(***************************************************************************)
(* Jigsaw puzzle shape generation.                                         *)
(*                                                                         *)
(*   src/puzzleGenerator.tsx   the interactive generator (generatePuzzle)  *)
(*   src/unnamed/part_001      the offline asset baker (generateAssets)    *)
(*                                                                         *)
(* Arithmetic.  The code computes with JavaScript numbers.  Every length   *)
(* of a path is a piece size (an integer, Math.floor of a quotient) times  *)
(* one of 1, 1/2, 0.25, 0.4, 0.3 or 0.22 + (u - 0.5) * 0.04.  The model    *)
(* keeps lengths as integers in units of 1/Scale pixel and draws u, the    *)
(* outcome of Math.random(), from the quarters 0, 1/4, 1/2, 3/4, so every  *)
(* product is an exact integer: the arithmetic is that of the rationals,   *)
(* the rounding of IEEE doubles is not modelled.                           *)
(***************************************************************************)
EXTENDS Integers, Sequences, FiniteSets, TLC

VARIABLES
    \* ---- generatePuzzle (src/puzzleGenerator.tsx) ----
    pc,           \* position in generatePuzzle: "call", "shapes", "pieces",
                  \* "return", "done", or "threw" (an exception left it)
    config,       \* the PuzzleConfig argument
    pieceShapes,  \* pieceShapes[r][c], the grid of edge signatures
    r,            \* loop counter r of the running loop
    c,            \* loop counter c of the running loop
    slots,        \* the local array slots
    pieces,       \* the local array pieces
    result,       \* the returned PuzzleData, NoResult before the return
    \* ---- generateAssets (src/unnamed/part_001) ----
    bpc,          \* position in generateAssets: "start", "shapes", "pieces", "write", "done"
    bconfig,      \* gridSize and the source image's metadata
    patternChoice,\* the single Math.random() draw that selects the pattern
    bakerShapes,  \* the baker's pieceShapes grid
    br,           \* the baker's loop counter r
    bc,           \* the baker's loop counter c
    masks,        \* the mask outline drawn for each piece written so far
    dataJson,     \* the puzzleData written to data.json, NoResult before
    \* ---- buildPiecePath applied to one signature ----
    sig,          \* the EdgeSignature given to buildPiecePath
    psize,        \* the piece size given to buildPiecePath
    ipath,        \* the path the interactive buildPiecePath returned
    bpath,        \* the path the baker's buildPiecePath returned
    \* ---- a piece id, from the template literal to the two parsers ----
    idRow,        \* the r of `r${r}c${c}`
    idCol,        \* the c of `r${r}c${c}`
    idText,       \* the id built, NoResult before
    appCell,      \* the row and col App.tsx (lines 208-209) reads from the id
    stripCell,    \* the r and c part_000 (line 356) reads from the id
    \* ---- a game: the level's baked data played by one of the two apps ----
    variant,      \* which app runs: "App.tsx", "part_000", or "none"
    level,        \* LevelAssets.data / PRE_GENERATED_LEVELS[...].data
    \* App.tsx
    gameAreaLayout,  \* useState, null (NoResult) before onLayout
    gameState,       \* useState<GameState>
    puzzle,          \* useState<PuzzleState | null>
    snappedPieces,   \* useState<Set<string>>, the latest state
    screen,          \* what the last render showed: snappedPieces, gameState
    pieceValues,     \* id -> the shared values of its mounted DraggablePiece
    panActive,       \* the ids whose pan gesture is between onStart and onEnd
    snapCalls,       \* the runOnJS(onSnap)(id) calls the JS thread has not run
    \* part_000
    window,          \* useWindowDimensions, NoResult before the mount
    placedPieceIds,  \* useState<Set<string>>, the latest state
    reshuffle,       \* shuffleSeed has changed since pieceData was computed
    pieceData,       \* useMemo: the pieces in strip order, with their layout
    shownPlaced,     \* the placedPieceIds of the last render
    stripValues,     \* id -> the shared values of its PuzzlePiece
    stripPan,        \* the ids whose pan gesture is between onStart and onEnd
    placedCalls,     \* the runOnJS(onPiecePlaced) calls the JS thread has not run
    winAnimation,    \* 0, or 1 once the win panel is shown
    \* ---- shuffleArray of part_000 applied to one array ----
    shuffleArg,      \* the array passed to shuffleArray, as it is now
    shuffleIndexes,  \* the randomIndex of each pass of the loop, in order
    shuffleResult,   \* [newArray |-> the array returned], NoResult before
    \* ---- invocations of generatePuzzle in flight at the same time ----
    runs             \* runs[k]: the locals of the k-th invocation, as genVars

genVars   == <<pc, config, pieceShapes, r, c, slots, pieces, result>>
bakerVars == <<bpc, bconfig, patternChoice, bakerShapes, br, bc, masks, dataJson>>
pathVars  == <<sig, psize, ipath, bpath>>
idVars    == <<idRow, idCol, idText, appCell, stripCell>>
appVars   == <<gameAreaLayout, gameState, puzzle, snappedPieces, screen,
               pieceValues, panActive, snapCalls>>
stripVars == <<window, placedPieceIds, reshuffle, pieceData, shownPlaced,
               stripValues, stripPan, placedCalls, winAnimation>>
playVars  == <<variant, level, appVars, stripVars>>
shuffleVars == <<shuffleArg, shuffleIndexes, shuffleResult>>
runVars   == <<runs>>
vars      == <<genVars, bakerVars, pathVars, idVars, playVars, shuffleVars,
               runVars>>

----------------------------------------------------------------------------
(* Bounds of the model *)

MaxRows == 2
MaxCols == 3
\* A run that goes on to build pieces has at most MaxCells cells.
MaxCells == 4
MaxPieceSize == 3

\* Fixed point: lengths are integers in 1/Scale pixel.
Scale == 4 * 25

\* Outcomes of Math.random(), in quarters: u stands for u/4.
RandomDraws == {0, 1, 2, 3}
\* The draws taken for a scatter coordinate and for a tab's jitter.
ScatterDraws == {0, 3}
JitterDraws == {0, 3}

NoResult == [none |-> TRUE]

----------------------------------------------------------------------------
(* EdgeType, src/puzzleGenerator.tsx:4-8 and src/unnamed/part_001:12 *)

\* (IN is a reserved word of TLA+: the members carry the enumeration's name.)
EdgeType_FLAT == 0
EdgeType_IN == 1
EdgeType_OUT == 2

EdgeTypes == {EdgeType_FLAT, EdgeType_IN, EdgeType_OUT}

FlatShape ==
    [top |-> EdgeType_FLAT, right |-> EdgeType_FLAT,
     bottom |-> EdgeType_FLAT, left |-> EdgeType_FLAT]

Shapes == [top : EdgeTypes, right : EdgeTypes, bottom : EdgeTypes, left : EdgeTypes]

----------------------------------------------------------------------------
(* Template literals: `r${r}c${c}` *)

DigitChars == <<"0", "1", "2", "3", "4", "5", "6", "7", "8", "9">>

\* String(n) for a non-negative integer n, as a sequence of characters.
RECURSIVE NumberToString(_)
NumberToString(n) ==
    IF n < 10 THEN <<DigitChars[n + 1]>>
    ELSE NumberToString(n \div 10) \o <<DigitChars[(n % 10) + 1]>>

PieceId(row, col) ==
    <<"r">> \o NumberToString(row) \o <<"c">> \o NumberToString(col)

----------------------------------------------------------------------------
(* Path commands.  A path is a sequence of commands [op, a]: op is the     *)
(* SVG letter and a the numbers that follow it, in 1/Scale pixel.          *)

CmdM(x, y) == [op |-> "M", a |-> <<x, y>>]
CmdL(x, y) == [op |-> "l", a |-> <<x, y>>]
CmdC(x1, y1, x2, y2, x, y) == [op |-> "c", a |-> <<x1, y1, x2, y2, x, y>>]
CmdS(x2, y2, x, y) == [op |-> "s", a |-> <<x2, y2, x, y>>]
CmdZ == [op |-> "Z", a |-> <<>>]

----------------------------------------------------------------------------
(* Numbers *)

\* n pixels in 1/Scale pixel.
Px(n) == n * Scale

\* Math.random() * x for the draw u (u/4), x in pixels: in 1/Scale pixel.
RandomTimes(u, x) == (u * x * Scale) \div 4

\* Math.random() > 0.5 for the draw u (u/4).
AboveHalf(u) == 2 * u > 4

\* The numbers of JavaScript that are not finite, as two integers no
\* finite number of the model comes near.
JsInfinity == 2 ^ 30
JsNaN == 2 ^ 30 + 1

JsFinite(x) == x # JsInfinity /\ x # -JsInfinity /\ x # JsNaN

\* Math.floor(a / b) for finite integers a and b: a / 0 is NaN for a = 0 and
\* an infinity of a's sign otherwise, and Math.floor leaves both as they are.
JsFloorDiv(a, b) ==
    IF b = 0
    THEN IF a = 0 THEN JsNaN ELSE IF a > 0 THEN JsInfinity ELSE -JsInfinity
    ELSE IF b < 0 THEN (-a) \div (-b) ELSE a \div b

\* a * b, b finite: infinity * 0 is NaN.
JsTimes(a, b) ==
    IF a = JsNaN THEN JsNaN
    ELSE IF a = JsInfinity \/ a = -JsInfinity
         THEN IF b = 0 THEN JsNaN ELSE IF b > 0 THEN a ELSE -a
         ELSE a * b

----------------------------------------------------------------------------
(* getEdgePath and buildPiecePath, src/puzzleGenerator.tsx:56-108 *)

Directions == {"right", "down", "left", "up"}

\* const notchSize = pieceSize * 0.4
NotchSize(pieceSize) == (Px(pieceSize) * 4) \div 10
\* const sweep = pieceSize * 0.25
Sweep(pieceSize) == Px(pieceSize) \div 4
\* Mutant: the half edge is taken for the quarter (sweep).
Half_Quarter(pieceSize) == Px(pieceSize) \div 4

\* pieceSize / 2
Half(pieceSize) == Px(pieceSize) \div 2

getEdgePath(edgeType, pieceSize, direction) ==
    LET notchSize == NotchSize(pieceSize)
        sweep == Sweep(pieceSize)
        half == Half(pieceSize)
        full == Px(pieceSize)
    IN CASE direction = "right" ->
              IF edgeType = EdgeType_FLAT THEN <<CmdL(full, 0)>>
              ELSE IF edgeType = EdgeType_IN
              THEN <<CmdC(sweep, 0, sweep, -notchSize, half, -notchSize),
                     CmdS(0, notchSize, half, notchSize)>>
              ELSE <<CmdC(sweep, 0, sweep, notchSize, half, notchSize),
                     CmdS(0, -notchSize, half, -notchSize)>>
         [] direction = "down" ->
              IF edgeType = EdgeType_FLAT THEN <<CmdL(0, full)>>
              ELSE IF edgeType = EdgeType_IN
              THEN <<CmdC(0, sweep, notchSize, sweep, notchSize, half),
                     CmdS(-notchSize, 0, -notchSize, half)>>
              ELSE <<CmdC(0, sweep, -notchSize, sweep, -notchSize, half),
                     CmdS(notchSize, 0, notchSize, half)>>
         [] direction = "left" ->
              IF edgeType = EdgeType_FLAT THEN <<CmdL(-full, 0)>>
              ELSE IF edgeType = EdgeType_IN
              THEN <<CmdC(-sweep, 0, -sweep, notchSize, -half, notchSize),
                     CmdS(0, -notchSize, -half, -notchSize)>>
              ELSE <<CmdC(-sweep, 0, -sweep, -notchSize, -half, -notchSize),
                     CmdS(0, notchSize, -half, notchSize)>>
         [] direction = "up" ->
              IF edgeType = EdgeType_FLAT THEN <<CmdL(0, -full)>>
              ELSE IF edgeType = EdgeType_IN
              THEN <<CmdC(0, -sweep, -notchSize, -sweep, -notchSize, -half),
                     CmdS(notchSize, 0, notchSize, -half)>>
              ELSE <<CmdC(0, -sweep, notchSize, -sweep, notchSize, -half),
                     CmdS(-notchSize, 0, -notchSize, -half)>>

buildPiecePath(shape, pieceSize) ==
    <<CmdM(0, 0)>>
    \o getEdgePath(shape.top, pieceSize, "right")
    \o getEdgePath(shape.right, pieceSize, "down")
    \o getEdgePath(shape.bottom, pieceSize, "left")
    \o getEdgePath(shape.left, pieceSize, "up")
    \o <<CmdZ>>

----------------------------------------------------------------------------
(* generatePuzzle, src/puzzleGenerator.tsx:113-175 *)

\* const availableWidth = screenWidth - (boardMargin * 2)
availableWidth(cfg) == cfg.screenWidth - (cfg.boardMargin * 2)
\* Mutant: the margin is taken off on one side only.
pieceSizeOnScreen_MarginOnce(cfg) ==
    JsFloorDiv(cfg.screenWidth - cfg.boardMargin, cfg.gridSize.cols)

\* Math.floor(availableWidth / cols)
pieceSizeOnScreen(cfg) == JsFloorDiv(availableWidth(cfg), cfg.gridSize.cols)
\* Math.floor(image.width / cols)
pieceSizeInImage(cfg) == JsFloorDiv(cfg.image.width, cfg.gridSize.cols)
boardWidth(cfg) == JsTimes(pieceSizeOnScreen(cfg), cfg.gridSize.cols)
boardHeight(cfg) == JsTimes(pieceSizeOnScreen(cfg), cfg.gridSize.rows)

\* The gap below the board, before the spawn area (line 149).
SpawnGap == 50
\* const spawnAreaY = boardMargin + boardHeight + 50
spawnAreaY(cfg) == cfg.boardMargin + boardHeight(cfg) + SpawnGap

\* Mutant: the neighbour's edge is copied, not inverted.
Complement_Copied(edgeType) == edgeType

\* x === EdgeType.IN ? EdgeType.OUT : EdgeType.IN  (lines 134, 135)
Complement(edgeType) ==
    IF edgeType = EdgeType_IN THEN EdgeType_OUT ELSE EdgeType_IN

\* Math.random() > 0.5 ? EdgeType.IN : EdgeType.OUT  (lines 136, 137)
RandomEdge(u) == IF AboveHalf(u) THEN EdgeType_IN ELSE EdgeType_OUT

\* Mutant: the far boundary is tested one cell too late (c === cols,
\* r === rows).
CellShape_OffByOne(grid, row, col, rows, cols, uRight, uBottom) ==
    [top    |-> IF row = 0 THEN EdgeType_FLAT
                ELSE Complement(grid[row - 1][col].bottom),
     left   |-> IF col = 0 THEN EdgeType_FLAT
                ELSE Complement(grid[row][col - 1].right),
     right  |-> IF col = cols THEN EdgeType_FLAT ELSE RandomEdge(uRight),
     bottom |-> IF row = rows THEN EdgeType_FLAT ELSE RandomEdge(uBottom)]

\* (One Math.random() per cell, used for the right and the bottom edge.)
CellShape_OneDraw(grid, row, col, rows, cols, uRight, uBottom) ==
    [top    |-> IF row = 0 THEN EdgeType_FLAT
                ELSE Complement(grid[row - 1][col].bottom),
     left   |-> IF col = 0 THEN EdgeType_FLAT
                ELSE Complement(grid[row][col - 1].right),
     right  |-> IF col = cols - 1 THEN EdgeType_FLAT ELSE RandomEdge(uRight),
     bottom |-> IF row = rows - 1 THEN EdgeType_FLAT ELSE RandomEdge(uRight)]

\* The body of the first loop (lines 132-137): the shape of cell (row, col),
\* given the grid built so far and the two draws.
CellShape(grid, row, col, rows, cols, uRight, uBottom) ==
    [top    |-> IF row = 0 THEN EdgeType_FLAT
                ELSE Complement(grid[row - 1][col].bottom),
     left   |-> IF col = 0 THEN EdgeType_FLAT
                ELSE Complement(grid[row][col - 1].right),
     right  |-> IF col = cols - 1 THEN EdgeType_FLAT ELSE RandomEdge(uRight),
     bottom |-> IF row = rows - 1 THEN EdgeType_FLAT ELSE RandomEdge(uBottom)]

\* Array(rows).fill(0).map(() => Array(cols).fill({all FLAT}))  (line 127)
InitialShapes(rows, cols) ==
    [row \in 0 .. rows - 1 |-> [col \in 0 .. cols - 1 |-> FlatShape]]

\* The push of a slot (line 153).
NewSlot(cfg, row, col) ==
    [id |-> PieceId(row, col),
     x |-> col * pieceSizeOnScreen(cfg),
     y |-> row * pieceSizeOnScreen(cfg)]

\* Mutant: the crop origin is computed with the size of the piece on the
\* screen.
NewPiece_ScreenSize(cfg, grid, row, col, uX, uY) ==
    [id |-> PieceId(row, col),
     shape |-> grid[row][col],
     svgClipPath |-> buildPiecePath(grid[row][col], pieceSizeInImage(cfg)),
     sourceX |-> col * pieceSizeOnScreen(cfg),
     sourceY |-> row * pieceSizeOnScreen(cfg),
     initialX |-> RandomTimes(uX, cfg.screenWidth - pieceSizeOnScreen(cfg)),
     initialY |-> Px(spawnAreaY(cfg))
                  + RandomTimes(uY, cfg.screenHeight - spawnAreaY(cfg)
                                    - pieceSizeOnScreen(cfg))]

\* The push of a piece (lines 146-163).  sourceX, sourceY are pixels;
\* initialX, initialY are in 1/Scale pixel.
NewPiece(cfg, grid, row, col, uX, uY) ==
    [id |-> PieceId(row, col),
     shape |-> grid[row][col],
     svgClipPath |-> buildPiecePath(grid[row][col], pieceSizeInImage(cfg)),
     sourceX |-> col * pieceSizeInImage(cfg),
     sourceY |-> row * pieceSizeInImage(cfg),
     initialX |-> RandomTimes(uX, cfg.screenWidth - pieceSizeOnScreen(cfg)),
     initialY |-> Px(spawnAreaY(cfg))
                  + RandomTimes(uY, cfg.screenHeight - spawnAreaY(cfg)
                                    - pieceSizeOnScreen(cfg))]

\* Mutant: a shuffle that overwrites instead of swapping, so that an
\* element is lost and another one is there twice.
Shuffled_Overwriting(list, perm) ==
    [i \in 1 .. Len(list) |-> IF i = 1 THEN list[perm[i]] ELSE list[perm[1]]]

\* pieces.sort(() => 0.5 - Math.random())  (line 168).  The comparator is
\* not consistent, so the order the engine's sort leaves is any order: the
\* array, sorted in place, holds its elements in the order perm.
Shuffled(list, perm) == [i \in 1 .. Len(list) |-> list[perm[i]]]

\* Inputs -----------------------------------------------------------------

ImageWidths == {7, 12}
ImageHeights == {9}
ScreenWidths == {24}
ScreenHeights == {160}
BoardMargins == {0}

Images == [uri : {"image"}, width : ImageWidths, height : ImageHeights]

GridSizes == [rows : 1 .. MaxRows, cols : 1 .. MaxCols]

Configs ==
    [gridSize : GridSizes, image : Images, screenWidth : ScreenWidths,
     screenHeight : ScreenHeights, boardMargin : BoardMargins]

\* Any PuzzleConfig of integers, the ones the input constraints exclude
\* among them: a grid without rows or columns, an image without metadata,
\* a screen too low for the spawn area.
MaxCallCells == 3
CallImages ==
    {[uri |-> "image", width |-> 12, height |-> 9],
     [uri |-> "image", width |-> 0, height |-> 9],
     [uri |-> "image", width |-> 12, height |-> 0]}
CallScreenHeights == {100, 160}
CallBoardMargins == {0, 2}

CallConfigs ==
    [gridSize : [rows : -1 .. MaxRows, cols : -1 .. MaxCols],
     image : CallImages, screenWidth : ScreenWidths,
     screenHeight : CallScreenHeights, boardMargin : CallBoardMargins]

\* State ------------------------------------------------------------------

GenIdle ==
    /\ pc = "idle"
    /\ config = NoResult
    /\ pieceShapes = <<>>
    /\ r = 0
    /\ c = 0
    /\ slots = <<>>
    /\ pieces = <<>>
    /\ result = NoResult

\* generatePuzzle(cfg) has run lines 114-127.
GenStart(cfg) ==
    /\ pc = "shapes"
    /\ config = cfg
    /\ pieceShapes = InitialShapes(cfg.gridSize.rows, cfg.gridSize.cols)
    /\ r = 0
    /\ c = 0
    /\ slots = <<>>
    /\ pieces = <<>>
    /\ result = NoResult

\* generatePuzzle(cfg) is called.
GenCall(cfg) ==
    /\ pc = "call"
    /\ config = cfg
    /\ pieceShapes = <<>>
    /\ r = 0
    /\ c = 0
    /\ slots = <<>>
    /\ pieces = <<>>
    /\ result = NoResult

\* Array(n) throws a RangeError for a negative length.  Line 127 evaluates
\* Array(rows), and Array(cols) once for each of the rows elements.
AllocationThrows(rows, cols) == rows < 0 \/ (rows > 0 /\ cols < 0)

\* Lines 114-127: the sizes are computed (no check of the configuration is
\* made) and the grid is allocated.  A loop over no rows, or over no
\* columns, has no pass.
Allocate ==
    /\ pc = "call"
    /\ IF AllocationThrows(config.gridSize.rows, config.gridSize.cols)
       THEN /\ pc' = "threw"
            /\ UNCHANGED pieceShapes
       ELSE /\ pieceShapes' =
                  InitialShapes(config.gridSize.rows, config.gridSize.cols)
            /\ pc' = IF config.gridSize.rows > 0 /\ config.gridSize.cols > 0
                     THEN "shapes" ELSE "return"
    /\ UNCHANGED <<config, r, c, slots, pieces, result>>
    /\ UNCHANGED <<bakerVars, pathVars, idVars, playVars, shuffleVars, runVars>>

\* The loop counters after one more pass of the inner loop.
NextCol(col, cols) == IF col + 1 < cols THEN col + 1 ELSE 0
NextRow(row, col, cols) == IF col + 1 < cols THEN row ELSE row + 1

\* One pass of the first loop's body (lines 130-141).
ShapeStep ==
    /\ pc = "shapes"
    /\ \E uRight \in RandomDraws, uBottom \in RandomDraws :
         pieceShapes' =
            [pieceShapes EXCEPT ![r][c] =
                CellShape(pieceShapes, r, c, config.gridSize.rows,
                          config.gridSize.cols, uRight, uBottom)]
    /\ c' = NextCol(c, config.gridSize.cols)
    /\ r' = IF NextRow(r, c, config.gridSize.cols) < config.gridSize.rows
            THEN NextRow(r, c, config.gridSize.cols) ELSE 0
    /\ pc' = IF NextRow(r, c, config.gridSize.cols) < config.gridSize.rows
             THEN "shapes" ELSE "pieces"
    /\ UNCHANGED <<config, slots, pieces, result>>
    /\ UNCHANGED <<bakerVars, pathVars, idVars, playVars, shuffleVars, runVars>>

\* The grids the first loop (lines 130-141) can leave, over all its draws,
\* when it goes on from cell (row, col) with any of the grids given.
RECURSIVE GridsFrom(_, _, _, _, _)
GridsFrom(grids, row, col, rows, cols) ==
    IF row >= rows THEN grids
    ELSE GridsFrom(UNION {{[grid EXCEPT ![row][col] = shape] :
                             shape \in {CellShape(grid, row, col, rows, cols,
                                                  uRight, uBottom) :
                                           uRight \in RandomDraws,
                                           uBottom \in RandomDraws}} :
                          grid \in grids},
                   NextRow(row, col, cols), NextCol(col, cols), rows, cols)

\* The largest grid, in cells, whose producible grids are enumerated.
MaxGridCells == 6

ProducibleGrids(rows, cols) ==
    GridsFrom({InitialShapes(rows, cols)}, 0, 0, rows, cols)

\* One pass of the second loop's body (lines 144-165).
PieceStep ==
    /\ pc = "pieces"
    /\ slots' = Append(slots, NewSlot(config, r, c))
    /\ \E uX \in ScatterDraws, uY \in ScatterDraws :
         pieces' = Append(pieces, NewPiece(config, pieceShapes, r, c, uX, uY))
    /\ c' = NextCol(c, config.gridSize.cols)
    /\ r' = IF NextRow(r, c, config.gridSize.cols) < config.gridSize.rows
            THEN NextRow(r, c, config.gridSize.cols) ELSE 0
    /\ pc' = IF NextRow(r, c, config.gridSize.cols) < config.gridSize.rows
             THEN "pieces" ELSE "return"
    /\ UNCHANGED <<config, pieceShapes, result>>
    /\ UNCHANGED <<bakerVars, pathVars, idVars, playVars, shuffleVars, runVars>>

\* Mutant: the slots are returned in the order of the shuffled pieces.
Return_SlotsFollowPieces ==
    /\ pc = "return"
    /\ \E perm \in Permutations(1 .. Len(pieces)) :
         /\ pieces' = Shuffled(pieces, perm)
         /\ result' = [pieces |-> Shuffled(pieces, perm),
                       slots |-> Shuffled(slots, perm),
                       boardSize |-> [width |-> boardWidth(config),
                                      height |-> boardHeight(config)],
                       pieceSize |-> pieceSizeOnScreen(config),
                       pieceSizeInImage |-> pieceSizeInImage(config),
                       image |-> config.image]
    /\ pc' = "done"
    /\ UNCHANGED <<config, pieceShapes, r, c, slots>>
    /\ UNCHANGED <<bakerVars, pathVars, idVars, playVars, shuffleVars, runVars>>

\* The return statement (lines 167-174): the shuffle, then the PuzzleData.
Return ==
    /\ pc = "return"
    /\ \E perm \in Permutations(1 .. Len(pieces)) :
         /\ pieces' = Shuffled(pieces, perm)
         /\ result' = [pieces |-> Shuffled(pieces, perm),
                       slots |-> slots,
                       boardSize |-> [width |-> boardWidth(config),
                                      height |-> boardHeight(config)],
                       pieceSize |-> pieceSizeOnScreen(config),
                       pieceSizeInImage |-> pieceSizeInImage(config),
                       image |-> config.image]
    /\ pc' = "done"
    /\ UNCHANGED <<config, pieceShapes, r, c, slots>>
    /\ UNCHANGED <<bakerVars, pathVars, idVars, playVars, shuffleVars, runVars>>

----------------------------------------------------------------------------
(* The baker's getEdgePath and buildPiecePath, src/unnamed/part_001:14-66 *)

\* const notchWidth = pieceSize * 0.4
NotchWidth(pieceSize) == (Px(pieceSize) * 4) \div 10
\* const notchHeight = pieceSize * (0.22 + (Math.random() - 0.5) * 0.04),
\* Math.random() being u/4: (u/4 - 0.5) * 0.04 = (u - 2) * 0.01
NotchHeight(pieceSize, u) == (Px(pieceSize) * (22 + (u - 2))) \div 100
\* Mutant: the halving is left out.
LineSegment_NotHalved(pieceSize) == Px(pieceSize) - NotchWidth(pieceSize)

\* const lineSegment = (pieceSize - notchWidth) / 2
LineSegment(pieceSize) == (Px(pieceSize) - NotchWidth(pieceSize)) \div 2
\* const notchDirection = edgeType === EdgeType.OUT ? 1 : -1
NotchDirection(edgeType) == IF edgeType = EdgeType_OUT THEN 1 ELSE -1

\* u is the outcome of the call's Math.random() (drawn only when the edge
\* is not FLAT).
BakerGetEdgePath(edgeType, pieceSize, direction, u) ==
    IF edgeType = EdgeType_FLAT
    THEN CASE direction = "right" -> <<CmdL(Px(pieceSize), 0)>>
           [] direction = "down" -> <<CmdL(0, Px(pieceSize))>>
           [] direction = "left" -> <<CmdL(-Px(pieceSize), 0)>>
           [] direction = "up" -> <<CmdL(0, -Px(pieceSize))>>
    ELSE LET notchWidth == NotchWidth(pieceSize)
             notchHeight == NotchHeight(pieceSize, u)
             lineSegment == LineSegment(pieceSize)
             notchDirection == NotchDirection(edgeType)
         IN CASE direction = "right" ->
                   LET nH == notchHeight * notchDirection
                   IN <<CmdL(lineSegment, 0),
                        CmdC(0, nH, notchWidth, nH, notchWidth, 0),
                        CmdL(lineSegment, 0)>>
              [] direction = "down" ->
                   LET nH == notchHeight * notchDirection
                   IN <<CmdL(0, lineSegment),
                        CmdC(nH, 0, nH, notchWidth, 0, notchWidth),
                        CmdL(0, lineSegment)>>
              [] direction = "left" ->
                   LET nH == notchHeight * (-notchDirection)
                   IN <<CmdL(-lineSegment, 0),
                        CmdC(0, nH, -notchWidth, nH, -notchWidth, 0),
                        CmdL(-lineSegment, 0)>>
              [] direction = "up" ->
                   LET nH == notchHeight * (-notchDirection)
                   IN <<CmdL(0, -lineSegment),
                        CmdC(nH, 0, nH, -notchWidth, 0, -notchWidth),
                        CmdL(0, -lineSegment)>>

\* us.top, us.right, us.bottom, us.left: the draws of the four calls.
BakerBuildPiecePath(shape, pieceSize, us) ==
    <<CmdM(0, 0)>>
    \o BakerGetEdgePath(shape.top, pieceSize, "right", us.top)
    \o BakerGetEdgePath(shape.right, pieceSize, "down", us.right)
    \o BakerGetEdgePath(shape.bottom, pieceSize, "left", us.bottom)
    \o BakerGetEdgePath(shape.left, pieceSize, "up", us.left)
    \o <<CmdZ>>

JitterDrawsOf(shape) ==
    [top : JitterDraws, right : JitterDraws, bottom : JitterDraws,
     left : JitterDraws]

----------------------------------------------------------------------------
(* generateAssets, src/unnamed/part_001:69-297 *)

\* Math.round(a / b) for a >= 0, b > 0: halves round up.
RoundDiv(a, b) == (2 * a + b) \div (2 * b)

\* const targetWidth = Math.round(targetHeight * targetAspectRatio), with
\* targetAspectRatio = cols / rows and targetHeight the source's height:
\* the width of the stretched image (metadata.width).
stretchedWidth(bcfg) ==
    RoundDiv(bcfg.imageHeight * bcfg.gridSize.cols, bcfg.gridSize.rows)
\* metadata.height
stretchedHeight(bcfg) == bcfg.imageHeight
\* const pieceSizeInImage = Math.floor(metadata.width / cols)
bakerPieceSize(bcfg) == stretchedWidth(bcfg) \div bcfg.gridSize.cols

\* A field of {} that was never assigned (line 141).
Undefined == -1
EmptyObject ==
    [top |-> Undefined, right |-> Undefined, bottom |-> Undefined,
     left |-> Undefined]

\* The policy patternChoice selects (lines 161, 164, 167):
\* patternChoice < 0.33, else patternChoice < 0.66, else the third.
Pattern(choice) ==
    IF 100 * choice < 4 * 33 THEN 1
    ELSE IF 100 * choice < 4 * 66 THEN 2
    ELSE 3

\* Mutant: the left edge is derived from the left neighbour's left edge
\* (pieceShapes[r][c - 1].left), not from its right edge.
BakerCellShape_WrongNeighbourEdge(grid, row, col, rows, cols, choice) ==
    [top    |-> IF row = 0 THEN EdgeType_FLAT
                ELSE IF grid[row - 1][col].bottom = EdgeType_IN
                     THEN EdgeType_OUT ELSE EdgeType_IN,
     left   |-> IF col = 0 THEN EdgeType_FLAT
                ELSE IF grid[row][col - 1].left = EdgeType_IN
                     THEN EdgeType_OUT ELSE EdgeType_IN,
     right  |-> IF col = cols - 1 THEN EdgeType_FLAT
                ELSE CASE Pattern(choice) = 1 -> EdgeType_IN
                       [] Pattern(choice) = 2 -> EdgeType_OUT
                       [] OTHER -> IF col % 2 = 0 THEN EdgeType_OUT
                                   ELSE EdgeType_IN,
     bottom |-> IF row = rows - 1 THEN EdgeType_FLAT
                ELSE CASE Pattern(choice) = 1 -> EdgeType_OUT
                       [] Pattern(choice) = 2 -> EdgeType_IN
                       [] OTHER -> IF row % 2 = 0 THEN EdgeType_IN
                                   ELSE EdgeType_OUT]

\* The body of the shape loop (lines 147-180).
BakerCellShape(grid, row, col, rows, cols, choice) ==
    [top    |-> IF row = 0 THEN EdgeType_FLAT
                ELSE IF grid[row - 1][col].bottom = EdgeType_IN
                     THEN EdgeType_OUT ELSE EdgeType_IN,
     left   |-> IF col = 0 THEN EdgeType_FLAT
                ELSE IF grid[row][col - 1].right = EdgeType_IN
                     THEN EdgeType_OUT ELSE EdgeType_IN,
     right  |-> IF col = cols - 1 THEN EdgeType_FLAT
                ELSE CASE Pattern(choice) = 1 -> EdgeType_IN
                       [] Pattern(choice) = 2 -> EdgeType_OUT
                       [] OTHER -> IF col % 2 = 0 THEN EdgeType_OUT
                                   ELSE EdgeType_IN,
     bottom |-> IF row = rows - 1 THEN EdgeType_FLAT
                ELSE CASE Pattern(choice) = 1 -> EdgeType_OUT
                       [] Pattern(choice) = 2 -> EdgeType_IN
                       [] OTHER -> IF row % 2 = 0 THEN EdgeType_IN
                                   ELSE EdgeType_OUT]

\* svgPath.replace('M 0,0', `M ${offsetX},${offsetY}`), both offsets being
\* pieceSizeInImage * 0.25  (lines 199-204).
TransformedPath(path, pieceSize) ==
    [i \in 1 .. Len(path) |->
        IF path[i] = CmdM(0, 0) /\ \A j \in 1 .. i - 1 : path[j] # CmdM(0, 0)
        THEN CmdM(Px(pieceSize) \div 4, Px(pieceSize) \div 4)
        ELSE path[i]]

\* const PADDING = Math.ceil(pieceSizeInImage * 0.5)  (line 121)
Padding(pieceSize) == (pieceSize + 1) \div 2

\* Math.round(v) for v >= 0 given in 1/Scale pixel: halves round up.
RoundPx(v) == (2 * v + Scale) \div (2 * Scale)

\* Math.round(extractLeft), extractLeft = c * pieceSizeInImage - offsetX
\* + PADDING (lines 211, 216); the same of r for extractTop (212, 217).
ExtractAt(index, pieceSize) ==
    RoundPx(Px(index * pieceSize) - (Px(pieceSize) \div 4) + Px(Padding(pieceSize)))

\* `piece_${id}.png`
PieceFilename(id) ==
    <<"p", "i", "e", "c", "e", "_">> \o id \o <<".", "p", "n", "g">>

\* Inputs -----------------------------------------------------------------

BakerMaxRows == 4
BakerMaxCols == 4
BakerImageHeights == {4, 6}

BakerConfigs ==
    [gridSize : [rows : 1 .. BakerMaxRows, cols : 1 .. BakerMaxCols],
     imageHeight : BakerImageHeights]

\* State ------------------------------------------------------------------

BakerIdle ==
    /\ bpc = "idle"
    /\ bconfig = NoResult
    /\ patternChoice = 0
    /\ bakerShapes = <<>>
    /\ br = 0
    /\ bc = 0
    /\ masks = <<>>
    /\ dataJson = NoResult

\* generateAssets(bcfg) is called.
BakerStart(bcfg) ==
    /\ bpc = "start"
    /\ bconfig = bcfg
    /\ patternChoice = 0
    /\ bakerShapes = <<>>
    /\ br = 0
    /\ bc = 0
    /\ masks = <<>>
    /\ dataJson = NoResult

\* Lines 70-144: the image is stretched, the grid allocated and the
\* pattern drawn.
BakerPrepare ==
    /\ bpc = "start"
    /\ bakerShapes' = [row \in 0 .. bconfig.gridSize.rows - 1 |->
                         [col \in 0 .. bconfig.gridSize.cols - 1 |-> EmptyObject]]
    /\ \E u \in RandomDraws : patternChoice' = u
    /\ bpc' = "shapes"
    /\ UNCHANGED <<bconfig, br, bc, masks, dataJson>>
    /\ UNCHANGED <<genVars, pathVars, idVars, playVars, shuffleVars, runVars>>

\* One pass of the shape loop's body (lines 145-183).
BakerShapeStep ==
    /\ bpc = "shapes"
    /\ bakerShapes' =
          [bakerShapes EXCEPT ![br][bc] =
              BakerCellShape(bakerShapes, br, bc, bconfig.gridSize.rows,
                             bconfig.gridSize.cols, patternChoice)]
    /\ bc' = NextCol(bc, bconfig.gridSize.cols)
    /\ br' = IF NextRow(br, bc, bconfig.gridSize.cols) < bconfig.gridSize.rows
             THEN NextRow(br, bc, bconfig.gridSize.cols) ELSE 0
    /\ bpc' = IF NextRow(br, bc, bconfig.gridSize.cols) < bconfig.gridSize.rows
              THEN "shapes" ELSE "pieces"
    /\ UNCHANGED <<bconfig, patternChoice, masks, dataJson>>
    /\ UNCHANGED <<genVars, pathVars, idVars, playVars, shuffleVars, runVars>>

\* One pass of the piece loop's body (lines 193-253): the piece's outline
\* is built and drawn as the mask of the sprite, which is cut from the
\* padded image at (left, top) and written.
BakerPieceStep ==
    /\ bpc = "pieces"
    /\ \E us \in JitterDrawsOf(bakerShapes[br][bc]) :
         masks' = Append(masks,
            [id |-> PieceId(br, bc),
             assetUri |-> PieceFilename(PieceId(br, bc)),
             row |-> br,
             col |-> bc,
             left |-> ExtractAt(bc, bakerPieceSize(bconfig)),
             top |-> ExtractAt(br, bakerPieceSize(bconfig)),
             path |-> TransformedPath(
                         BakerBuildPiecePath(bakerShapes[br][bc],
                                             bakerPieceSize(bconfig), us),
                         bakerPieceSize(bconfig))])
    /\ bc' = NextCol(bc, bconfig.gridSize.cols)
    /\ br' = IF NextRow(br, bc, bconfig.gridSize.cols) < bconfig.gridSize.rows
             THEN NextRow(br, bc, bconfig.gridSize.cols) ELSE 0
    /\ bpc' = IF NextRow(br, bc, bconfig.gridSize.cols) < bconfig.gridSize.rows
              THEN "pieces" ELSE "write"
    /\ UNCHANGED <<bconfig, patternChoice, bakerShapes, dataJson>>
    /\ UNCHANGED <<genVars, pathVars, idVars, playVars, shuffleVars, runVars>>

\* Lines 255-296: data.json, background.png and level.assets.js.
BakerWrite ==
    /\ bpc = "write"
    /\ dataJson' =
          [gridSize |-> bconfig.gridSize,
           imageAspectRatio |-> [num |-> stretchedWidth(bconfig),
                                 den |-> stretchedHeight(bconfig)],
           pieceSizeInImage |-> bakerPieceSize(bconfig),
           pieces |-> [i \in 1 .. Len(masks) |->
                         [id |-> masks[i].id, assetUri |-> masks[i].assetUri]]]
    /\ bpc' = "done"
    /\ UNCHANGED <<bconfig, patternChoice, bakerShapes, br, bc, masks>>
    /\ UNCHANGED <<genVars, pathVars, idVars, playVars, shuffleVars, runVars>>

----------------------------------------------------------------------------
(* buildPiecePath applied to one signature and one piece size *)

PathIdle ==
    /\ sig = FlatShape
    /\ psize = 1
    /\ ipath = NoResult
    /\ bpath = NoResult

\* buildPiecePath(sig, psize) of src/puzzleGenerator.tsx returns.
CallBuildPiecePath ==
    /\ ipath = NoResult
    /\ ipath' = buildPiecePath(sig, psize)
    /\ UNCHANGED <<sig, psize, bpath>>
    /\ UNCHANGED <<genVars, bakerVars, idVars, playVars, shuffleVars, runVars>>

\* buildPiecePath(sig, psize) of src/unnamed/part_001 returns.
CallBakerBuildPiecePath ==
    /\ bpath = NoResult
    /\ \E us \in JitterDrawsOf(sig) : bpath' = BakerBuildPiecePath(sig, psize, us)
    /\ UNCHANGED <<sig, psize, ipath>>
    /\ UNCHANGED <<genVars, bakerVars, idVars, playVars, shuffleVars, runVars>>

----------------------------------------------------------------------------
(* A piece id read back by the two apps *)

IsDigit(ch) == \E i \in 1 .. Len(DigitChars) : DigitChars[i] = ch

DigitValue(ch) == (CHOOSE i \in 1 .. Len(DigitChars) : DigitChars[i] = ch) - 1

\* The UTF-16 code unit of a character of an id: "0" is 48, "c" 99, "r" 114.
CharCode(ch) ==
    IF IsDigit(ch) THEN 6 * 8 + DigitValue(ch)
    ELSE IF ch = "c" THEN 99 ELSE 114

\* str.charCodeAt(i): NaN past the end of the string.
charCodeAt(str, i) ==
    IF i < Len(str) THEN CharCode(str[i + 1]) ELSE JsNaN

JsMinus(a, b) == IF a = JsNaN \/ b = JsNaN THEN JsNaN ELSE a - b

\* App.tsx: one character of the id for the row, one for the col.
AppParseId(id) ==
    [row |-> JsMinus(charCodeAt(id, 1), CharCode("0")),
     col |-> JsMinus(charCodeAt(id, 3), CharCode("0"))]

\* str.replace(ch, ''): the first occurrence of ch removed.
RECURSIVE ReplaceFirst(_, _)
ReplaceFirst(str, ch) ==
    IF str = <<>> THEN <<>>
    ELSE IF Head(str) = ch THEN Tail(str)
    ELSE <<Head(str)>> \o ReplaceFirst(Tail(str), ch)

\* str.split(ch): the pieces of str between the occurrences of ch.
RECURSIVE Split(_, _)
Split(str, ch) ==
    IF \A i \in 1 .. Len(str) : str[i] # ch THEN <<str>>
    ELSE LET k == CHOOSE i \in 1 .. Len(str) :
                      str[i] = ch /\ \A j \in 1 .. i - 1 : str[j] # ch
         IN  <<SubSeq(str, 1, k - 1)>> \o Split(SubSeq(str, k + 1, Len(str)), ch)

RECURSIVE DecimalValue(_)
DecimalValue(str) ==
    IF str = <<>> THEN 0
    ELSE 10 * DecimalValue(SubSeq(str, 1, Len(str) - 1))
         + DigitValue(str[Len(str)])

\* Number(str) on a string of an id: 0 for '', NaN unless all digits.
JsNumber(str) ==
    IF \A i \in 1 .. Len(str) : IsDigit(str[i]) THEN DecimalValue(str) ELSE JsNaN

\* part_000: const [r, c] = id.replace('r', '').split('c').map(Number)
StripParseId(id) ==
    LET parts == Split(ReplaceFirst(id, "r"), "c")
    IN  [row |-> JsNumber(parts[1]),
         col |-> IF Len(parts) >= 2 THEN JsNumber(parts[2]) ELSE JsNaN]

\* The largest row or column index of the ids read back.
MaxIndex == 10

IdIdle ==
    /\ idRow = 0
    /\ idCol = 0
    /\ idText = NoResult
    /\ appCell = NoResult
    /\ stripCell = NoResult

\* The generator (or the baker) names the piece of cell (idRow, idCol).
BuildId ==
    /\ idText = NoResult
    /\ idText' = PieceId(idRow, idCol)
    /\ UNCHANGED <<idRow, idCol, appCell, stripCell>>
    /\ UNCHANGED <<genVars, bakerVars, pathVars, playVars, shuffleVars, runVars>>

\* setupPuzzle of App.tsx reads the piece's cell from its id.
AppReadId ==
    /\ idText # NoResult
    /\ appCell = NoResult
    /\ appCell' = AppParseId(idText)
    /\ UNCHANGED <<idRow, idCol, idText, stripCell>>
    /\ UNCHANGED <<genVars, bakerVars, pathVars, playVars, shuffleVars, runVars>>

\* pieceData of part_000 reads the piece's cell from its id.
StripReadId ==
    /\ idText # NoResult
    /\ stripCell = NoResult
    /\ stripCell' = StripParseId(idText)
    /\ UNCHANGED <<idRow, idCol, idText, appCell>>
    /\ UNCHANGED <<genVars, bakerVars, pathVars, playVars, shuffleVars, runVars>>

----------------------------------------------------------------------------
(* The level an app plays, and the numbers of its layout *)

\* Lengths of the two apps are integers in 1/Unit px.
Unit == 5 * 6

\* A positive rational n/d in lowest terms.
RECURSIVE GCD(_, _)
GCD(a, b) == IF b = 0 THEN a ELSE GCD(b, a % b)

Frac(n, d) == LET g == GCD(n, d) IN [num |-> n \div g, den |-> d \div g]

TimesFrac(x, f) == (x * f.num) \div f.den

OverFrac(x, f) == (x * f.den) \div f.num

FracBelowOne(f) == f.num < f.den

\* Math.sqrt(dx^2 + dy^2) < threshold, without leaving the integers.
CloserThan(dx, dy, threshold) ==
    /\ -threshold < dx /\ dx < threshold
    /\ -threshold < dy /\ dy < threshold
    /\ dx * dx + dy * dy < threshold * threshold

\* The largest number of pieces of a level played.
MaxPlayPieces == 2

\* The height of the stretched image the levels are baked from.
LevelImageHeight == 2 * 6

\* The data.json the baker writes for a grid: pieces row by row.
LevelData(grid) ==
    LET bcfg == [gridSize |-> grid, imageHeight |-> LevelImageHeight]
    IN  [gridSize |-> grid,
         imageAspectRatio |-> Frac(stretchedWidth(bcfg), stretchedHeight(bcfg)),
         pieces |-> [i \in 1 .. grid.rows * grid.cols |->
                       [id |-> PieceId((i - 1) \div grid.cols,
                                       (i - 1) % grid.cols)]]]

Levels ==
    {LevelData(grid) : grid \in
        {g \in [rows : 1 .. MaxPlayPieces, cols : 1 .. MaxPlayPieces] :
            g.rows * g.cols <= MaxPlayPieces}}

LevelIds(lvl) == {lvl.pieces[i].id : i \in 1 .. Len(lvl.pieces)}

\* The release points of a drag are a point just inside the threshold of the
\* piece's own slot, a point at exactly the threshold, and the slots of the
\* other pieces. For App.tsx, as offsets from the slot: at a distance of
\* just under 50 px, and of exactly 50 px.
Inside50 == [x |-> 29 * Unit, y |-> 40 * Unit]
At50 == [x |-> 30 * Unit, y |-> 40 * Unit]

----------------------------------------------------------------------------
(* App.tsx *)

BOARD_MARGIN == 10
SNAP_THRESHOLD == 50
PIECE_ASSET_TO_LOGICAL_RATIO == [num |-> 3, den |-> 2]
BOARD_FRAME_WIDTH == 4

\* The layouts onLayout reports for the game area, in px.
AppLayouts ==
    {[width |-> 628 * Unit, height |-> h * Unit, x |-> 0, y |-> 0] :
        h \in {800, 1000}}

\* The PuzzleState setupPuzzle computes from the layout and the level data.
setupPuzzle(layout, lvl) ==
    LET viewWidth == layout.width
        viewHeight == layout.height
        n == Len(lvl.pieces)
        trayHeight == viewHeight \div 4
        frame == (BOARD_MARGIN * 2 + BOARD_FRAME_WIDTH * 2) * Unit
        puzzleAreaWidth == viewWidth - frame
        puzzleAreaHeight == viewHeight - trayHeight - frame
        tooWide == TimesFrac(puzzleAreaHeight, lvl.imageAspectRatio)
                       > puzzleAreaWidth
        boardWidth_ == IF tooWide THEN puzzleAreaWidth
                       ELSE TimesFrac(puzzleAreaHeight, lvl.imageAspectRatio)
        boardHeight_ == IF tooWide
                        THEN OverFrac(puzzleAreaWidth, lvl.imageAspectRatio)
                        ELSE puzzleAreaHeight
        pieceSize == boardWidth_ \div lvl.gridSize.cols
        trayScale == Frac(trayHeight * 8 * PIECE_ASSET_TO_LOGICAL_RATIO.den,
                          pieceSize * 10 * PIECE_ASSET_TO_LOGICAL_RATIO.num)
        pieceInTraySize ==
            TimesFrac(TimesFrac(pieceSize, PIECE_ASSET_TO_LOGICAL_RATIO),
                      trayScale)
        pieceSpacing == 10 * Unit
        scaleCorrection ==
            TimesFrac(pieceSize \div 2,
                      [num |-> trayScale.den - trayScale.num,
                       den |-> trayScale.den])
        pieceBlockWidth == pieceInTraySize * n + pieceSpacing * (n - 1)
        initialXOffset == IF pieceBlockWidth < viewWidth
                          THEN (viewWidth - pieceBlockWidth) \div 2
                          ELSE BOARD_MARGIN * Unit
        targetX(index) == initialXOffset + index * (pieceInTraySize + pieceSpacing)
        targetY == viewHeight - trayHeight + (trayHeight - pieceInTraySize) \div 2
    IN  [pieces |-> [i \in 1 .. n |->
                       [id |-> lvl.pieces[i].id,
                        trayScale |-> trayScale,
                        initialX |-> targetX(i - 1) - scaleCorrection,
                        initialY |-> targetY - scaleCorrection,
                        slot |-> [x |-> AppParseId(lvl.pieces[i].id).col * pieceSize,
                                  y |-> AppParseId(lvl.pieces[i].id).row * pieceSize]]],
         boardSize |-> [width |-> boardWidth_, height |-> boardHeight_],
         pieceSize |-> pieceSize]

\* boardPosition of the App component's render.
boardPosition(layout, pz) ==
    LET frameWidth == pz.boardSize.width + BOARD_FRAME_WIDTH * 2 * Unit
        frameX == (layout.width - frameWidth) \div 2
        frameY == BOARD_MARGIN * Unit
    IN  [x |-> layout.x + frameX + BOARD_FRAME_WIDTH * Unit,
         y |-> layout.y + frameY + BOARD_FRAME_WIDTH * Unit]

\* trayScrollX.value: the tray's content is as wide as the view when the
\* pieces fit in it, so the tray never scrolls.
trayScrollX == 0

One == [num |-> 1, den |-> 1]

AppPieceData(id) ==
    puzzle.pieces[CHOOSE i \in 1 .. Len(puzzle.pieces) : puzzle.pieces[i].id = id]

\* Where the piece's slot is on the screen.
SlotOnScreen(id) ==
    [x |-> boardPosition(gameAreaLayout, puzzle).x + AppPieceData(id).slot.x,
     y |-> boardPosition(gameAreaLayout, puzzle).y + AppPieceData(id).slot.y]

\* The shared values of a DraggablePiece when it mounts.
MountedPiece(piece) ==
    [isDragging |-> FALSE,
     isSnapped |-> FALSE,
     offsetX |-> piece.initialX,
     offsetY |-> piece.initialY,
     contextX |-> 0,
     contextY |-> 0,
     scale |-> piece.trayScale]

Mounted(id) == pieceValues[id] # NoResult

\* The points a finger can take a piece of App.tsx to.
AppDropPoints(id) ==
    {[x |-> SlotOnScreen(id).x + Inside50.x, y |-> SlotOnScreen(id).y + Inside50.y],
     [x |-> SlotOnScreen(id).x + At50.x, y |-> SlotOnScreen(id).y + At50.y]}
    \cup {SlotOnScreen(other) : other \in LevelIds(level) \ {id}}

\* The queue of calls the UI thread has handed to the JS thread holds at
\* most so many calls.
MaxCalls == 2

\* At most so many fingers drag pieces at a time.
MaxTouches == 1

AppIdle ==
    /\ gameAreaLayout = NoResult
    /\ gameState = "LOADING"
    /\ puzzle = NoResult
    /\ snappedPieces = {}
    /\ screen = [snappedPieces |-> {}, gameState |-> "LOADING"]
    /\ pieceValues = <<>>
    /\ panActive = {}
    /\ snapCalls = <<>>

\* onLayout of the game area, the effect it triggers and setupPuzzle, to the
\* render that mounts a DraggablePiece per piece.
AppSetup ==
    /\ variant = "App.tsx"
    /\ gameAreaLayout = NoResult
    /\ \E layout \in AppLayouts :
         /\ gameAreaLayout' = layout
         /\ puzzle' = setupPuzzle(layout, level)
         /\ pieceValues' =
               [id \in LevelIds(level) |->
                  LET pz == setupPuzzle(layout, level)
                  IN  MountedPiece(pz.pieces[CHOOSE i \in 1 .. Len(pz.pieces) :
                                                 pz.pieces[i].id = id])]
    /\ snappedPieces' = {}
    /\ gameState' = "PLAYING"
    /\ screen' = [snappedPieces |-> {}, gameState |-> "PLAYING"]
    /\ UNCHANGED <<panActive, snapCalls>>
    /\ UNCHANGED <<variant, level, stripVars>>
    /\ UNCHANGED <<genVars, bakerVars, pathVars, idVars, shuffleVars, runVars>>

\* panGesture.onStart of a mounted piece.
AppOnStart ==
    /\ variant = "App.tsx"
    /\ puzzle # NoResult
    /\ Cardinality(panActive) < MaxTouches
    /\ \E id \in LevelIds(level) \ panActive :
         /\ Mounted(id)
         /\ panActive' = panActive \cup {id}
         /\ pieceValues' =
               IF pieceValues[id].isSnapped THEN pieceValues
               ELSE [pieceValues EXCEPT
                       ![id].contextX =
                           pieceValues[id].offsetX
                           - (IF FracBelowOne(AppPieceData(id).trayScale)
                              THEN trayScrollX ELSE 0),
                       ![id].contextY = pieceValues[id].offsetY,
                       ![id].isDragging = TRUE,
                       ![id].scale = One]
    /\ UNCHANGED <<gameAreaLayout, gameState, puzzle, snappedPieces, screen,
                   snapCalls>>
    /\ UNCHANGED <<variant, level, stripVars>>
    /\ UNCHANGED <<genVars, bakerVars, pathVars, idVars, shuffleVars, runVars>>

\* panGesture.onUpdate: the finger has moved the piece to a point, that is
\* event.translation = point - context.
AppOnUpdate ==
    /\ variant = "App.tsx"
    /\ \E id \in panActive :
         \E point \in AppDropPoints(id) :
            LET translationX == point.x - pieceValues[id].contextX
                translationY == point.y - pieceValues[id].contextY
            IN  pieceValues' =
                   IF pieceValues[id].isSnapped THEN pieceValues
                   ELSE [pieceValues EXCEPT
                           ![id].offsetX = pieceValues[id].contextX + translationX,
                           ![id].offsetY = pieceValues[id].contextY + translationY]
    /\ UNCHANGED <<gameAreaLayout, gameState, puzzle, snappedPieces, screen,
                   panActive, snapCalls>>
    /\ UNCHANGED <<variant, level, stripVars>>
    /\ UNCHANGED <<genVars, bakerVars, pathVars, idVars, shuffleVars, runVars>>

\* (distance <= SNAP_THRESHOLD instead.)
AppWithinThreshold_Inclusive(id, values) ==
    LET dx == values.offsetX - SlotOnScreen(id).x
        dy == values.offsetY - SlotOnScreen(id).y
    IN  dx * dx + dy * dy <= (SNAP_THRESHOLD * Unit) * (SNAP_THRESHOLD * Unit)
\* distance < SNAP_THRESHOLD of onEnd, centre to centre.
AppWithinThreshold(id, values) ==
    LET pieceLogicalSize == puzzle.pieceSize
        currentPieceCenterX == values.offsetX + pieceLogicalSize \div 2
        currentPieceCenterY == values.offsetY + pieceLogicalSize \div 2
        targetSlotCenterX == SlotOnScreen(id).x + pieceLogicalSize \div 2
        targetSlotCenterY == SlotOnScreen(id).y + pieceLogicalSize \div 2
    IN  CloserThan(currentPieceCenterX - targetSlotCenterX,
                   currentPieceCenterY - targetSlotCenterY,
                   SNAP_THRESHOLD * Unit)

\* panGesture.onEnd and onFinalize of the piece. A spring is at its end at
\* once: offsetX.value = withSpring(x) is offsetX = x.
AppOnEnd ==
    /\ variant = "App.tsx"
    /\ Len(snapCalls) < MaxCalls
    /\ \E id \in panActive :
         /\ panActive' = panActive \ {id}
         /\ IF AppWithinThreshold(id, pieceValues[id])
            THEN /\ pieceValues' =
                       [pieceValues EXCEPT
                          ![id].offsetX = SlotOnScreen(id).x,
                          ![id].offsetY = SlotOnScreen(id).y,
                          ![id].isSnapped = TRUE,
                          ![id].isDragging = FALSE]
                 /\ snapCalls' = Append(snapCalls, AppPieceData(id).id)
            ELSE /\ pieceValues' =
                       [pieceValues EXCEPT
                          ![id].offsetX = AppPieceData(id).initialX,
                          ![id].offsetY = AppPieceData(id).initialY,
                          ![id].scale = AppPieceData(id).trayScale,
                          ![id].isDragging = FALSE]
                 /\ snapCalls' = snapCalls
    /\ UNCHANGED <<gameAreaLayout, gameState, puzzle, snappedPieces, screen>>
    /\ UNCHANGED <<variant, level, stripVars>>
    /\ UNCHANGED <<genVars, bakerVars, pathVars, idVars, shuffleVars, runVars>>

\* handleSnap(pieceId) on the JS thread, with its updater.
HandleSnap ==
    /\ variant = "App.tsx"
    /\ snapCalls # <<>>
    /\ LET pieceId == Head(snapCalls)
           newSet == snappedPieces \cup {pieceId}
       IN  /\ snappedPieces' = newSet
           /\ gameState' =
                 IF puzzle # NoResult /\ Cardinality(newSet) = Len(puzzle.pieces)
                 THEN "WON" ELSE gameState
    /\ snapCalls' = Tail(snapCalls)
    /\ UNCHANGED <<gameAreaLayout, puzzle, screen, pieceValues, panActive>>
    /\ UNCHANGED <<variant, level, stripVars>>
    /\ UNCHANGED <<genVars, bakerVars, pathVars, idVars, shuffleVars, runVars>>

\* The App component renders its state: a snapped piece becomes a static
\* View (its DraggablePiece unmounts, its gesture with it), any other piece
\* has a DraggablePiece, mounted now if it had none.
AppRender ==
    /\ variant = "App.tsx"
    /\ puzzle # NoResult
    /\ screen # [snappedPieces |-> snappedPieces, gameState |-> gameState]
    /\ screen' = [snappedPieces |-> snappedPieces, gameState |-> gameState]
    /\ pieceValues' =
          [id \in LevelIds(level) |->
             IF id \in snappedPieces THEN NoResult
             ELSE IF Mounted(id) THEN pieceValues[id]
             ELSE MountedPiece(AppPieceData(id))]
    /\ panActive' = panActive \ snappedPieces
    /\ UNCHANGED <<gameAreaLayout, gameState, puzzle, snappedPieces, snapCalls>>
    /\ UNCHANGED <<variant, level, stripVars>>
    /\ UNCHANGED <<genVars, bakerVars, pathVars, idVars, shuffleVars, runVars>>

\* reset() of a DraggablePiece, through its ref.
ResetPiece(piece, values) ==
    [values EXCEPT !.offsetX = piece.initialX,
                   !.offsetY = piece.initialY,
                   !.isSnapped = FALSE,
                   !.scale = piece.trayScale]

\* handleReset, the onPress of the button the WON screen shows.
HandleReset ==
    /\ variant = "App.tsx"
    /\ screen.gameState = "WON"
    /\ pieceValues' =
          [id \in LevelIds(level) |->
             IF Mounted(id) THEN ResetPiece(AppPieceData(id), pieceValues[id])
             ELSE NoResult]
    /\ snappedPieces' = {}
    /\ gameState' = "PLAYING"
    /\ UNCHANGED <<gameAreaLayout, puzzle, screen, panActive, snapCalls>>
    /\ UNCHANGED <<variant, level, stripVars>>
    /\ UNCHANGED <<genVars, bakerVars, pathVars, idVars, shuffleVars, runVars>>

----------------------------------------------------------------------------
(* src/unnamed/part_000 *)

\* Math.floor(Math.random() * currentIndex): Math.random() is in [0, 1), so
\* any index below currentIndex.
RandomIndexes(currentIndex) == 0 .. currentIndex - 1

\* The randomIndex values the loop of shuffleArray can draw for an array of
\* n elements: pass k runs with currentIndex = n - k + 1.
IndexDraws(n) ==
    {draws \in [1 .. n -> 0 .. n - 1] :
        \A k \in 1 .. n : draws[k] \in RandomIndexes(n - k + 1)}

\* shuffleArray(array), draws[k] standing for the randomIndex of pass k.
RECURSIVE ShuffleFrom(_, _, _)
ShuffleFrom(newArray, currentIndex, draws) ==
    IF currentIndex = 0 THEN newArray
    ELSE LET randomIndex == Head(draws)
             index == currentIndex - 1
         IN  ShuffleFrom([newArray EXCEPT
                            ![index + 1] = newArray[randomIndex + 1],
                            ![randomIndex + 1] = newArray[index + 1]],
                         index, Tail(draws))

\* (let currentIndex = array.length - 1 instead.)
shuffleArray_SkipsLast(array, draws) ==
    IF array = <<>> THEN array
    ELSE ShuffleFrom(array, Len(array) - 1, Tail(draws))

shuffleArray(array, draws) == ShuffleFrom(array, Len(array), draws)

\* The orders shuffleArray can return.
Shuffles(array) ==
    {shuffleArray(array, draws) : draws \in IndexDraws(Len(array))}

\* The window sizes useWindowDimensions reports, in px.
Windows == {[width |-> 400 * Unit, height |-> 800 * Unit]}

\* boardLayout of the screen component.
boardLayout(win, lvl) ==
    LET screenWidth == win.width
        screenHeight == win.height
        isTablet == screenWidth > 768 * Unit
        stripHeight == (IF isTablet THEN 150 ELSE 120) * Unit
        boardPadding == 20 * Unit
        availableHeight_ == screenHeight - stripHeight - boardPadding * 2
        availableWidth_ == screenWidth - boardPadding * 2
        tooHigh == OverFrac(availableWidth_, lvl.imageAspectRatio) > availableHeight_
        boardWidth_ == IF tooHigh
                       THEN TimesFrac(availableHeight_, lvl.imageAspectRatio)
                       ELSE availableWidth_
        boardHeight_ == IF tooHigh THEN availableHeight_
                        ELSE OverFrac(availableWidth_, lvl.imageAspectRatio)
        pieceSizeOnScreen_ == boardWidth_ \div lvl.gridSize.cols
        stripPieceAssetRenderSize ==
            (stripHeight * (IF isTablet THEN 9 ELSE 8)) \div 10
    IN  [boardWidth |-> boardWidth_,
         boardHeight |-> boardHeight_,
         boardTop |-> (availableHeight_ - boardHeight_) \div 2 + boardPadding,
         boardLeft |-> (screenWidth - boardWidth_) \div 2,
         pieceSizeOnScreen |-> pieceSizeOnScreen_,
         pieceAssetRenderSize |-> (pieceSizeOnScreen_ * 3) \div 2,
         stripTop |-> screenHeight - stripHeight,
         stripHeight |-> stripHeight,
         stripPieceSize |-> (stripPieceAssetRenderSize * 2) \div 3,
         stripPieceAssetRenderSize |-> stripPieceAssetRenderSize]

\* pieceData of the screen component, for the order shuffleArray returned.
PieceDataOf(layout, shuffledPieces) ==
    LET pieceOffset == layout.pieceSizeOnScreen \div 4
        unscaledAssetSize == layout.pieceAssetRenderSize
        scaledAssetSize == layout.stripPieceAssetRenderSize
        stripCenterY == layout.stripTop + layout.stripHeight \div 2
        initialY == stripCenterY - unscaledAssetSize \div 2
        pieceSpacing == (scaledAssetSize * 8) \div 10 + 10 * Unit
    IN  [i \in 1 .. Len(shuffledPieces) |->
           LET id == shuffledPieces[i].id
               rc == StripParseId(id)
               cellLeft == layout.boardLeft + rc.col * layout.pieceSizeOnScreen
               cellTop == layout.boardTop + rc.row * layout.pieceSizeOnScreen
               pieceCenterInScroll ==
                   10 * Unit + (i - 1) * pieceSpacing + scaledAssetSize \div 2
           IN  [id |-> id,
                targetX |-> cellLeft - pieceOffset,
                targetY |-> cellTop - pieceOffset,
                initialX |-> pieceCenterInScroll - unscaledAssetSize \div 2,
                initialY |-> initialY]]

\* scrollX.value: the strip's content is narrower than the window for the
\* levels played, so the strip never scrolls.
scrollX == 0

\* const SNAP_THRESHOLD = pieceSizeOnScreen * 0.35
StripSnapThreshold(layout) == (layout.pieceSizeOnScreen * 35) \div 100

stripScale(layout) == Frac(layout.stripPieceSize, layout.pieceSizeOnScreen)

StripLayout == boardLayout(window, level)

StripPiece(id) ==
    pieceData[CHOOSE i \in 1 .. Len(pieceData) : pieceData[i].id = id]

\* The animation of position that takes a released piece back (lines
\* 214-244) is "no" (none), "shake" (the sequence of four withTiming) or
\* "spring" (the withSpring its last callback starts). Writing position.value
\* ends the running animation unfinished, and its callbacks are called with
\* finished = false: the callback of the fourth withTiming does not look at
\* finished and starts the spring (and the spring of scale) all the same,
\* which in its turn ends what was just written; the callback of the spring
\* does nothing when finished is false.
Cancelled(returnRunning) == IF returnRunning = "shake" THEN "spring" ELSE "no"

\* The shared values of a PuzzlePiece when it mounts, and whether the
\* animation onEnd starts to take the piece back to the strip is running.
MountedStripPiece(piece, isPlaced, layout) ==
    [position |-> [x |-> piece.initialX, y |-> piece.initialY],
     scale |-> stripScale(layout),
     isDragging |-> FALSE,
     startX |-> 0,
     startY |-> 0,
     isSnapped |-> isPlaced,
     isReturning |-> FALSE,
     returnRunning |-> "no"]

\* The release points of a drag of part_000, as offsets from the target:
\* the threshold is 0.35 * pieceSizeOnScreen = 7 * (pieceSizeOnScreen / 20),
\* and (3, 4, 5) * 7/5 is a right triangle of that hypotenuse.
AtThreshold(layout) ==
    LET fifth == StripSnapThreshold(layout) \div 5
    IN  [x |-> 3 * fifth, y |-> 4 * fifth]

StripDropPoints(id) ==
    LET target == [x |-> StripPiece(id).targetX, y |-> StripPiece(id).targetY]
        at == AtThreshold(StripLayout)
    IN  {[x |-> target.x + at.x - 1, y |-> target.y + at.y],
         [x |-> target.x + at.x, y |-> target.y + at.y]}
        \cup {[x |-> StripPiece(other).targetX, y |-> StripPiece(other).targetY] :
                 other \in LevelIds(level) \ {id}}

\* allPiecesPlaced of the screen component.
allPiecesPlaced ==
    IF Len(pieceData) > 0 THEN Cardinality(placedPieceIds) = Len(pieceData)
    ELSE FALSE

StripIdle ==
    /\ window = NoResult
    /\ placedPieceIds = {}
    /\ reshuffle = FALSE
    /\ pieceData = <<>>
    /\ shownPlaced = {}
    /\ stripValues = <<>>
    /\ stripPan = {}
    /\ placedCalls = <<>>
    /\ winAnimation = 0

PlayIdle ==
    /\ variant = "none"
    /\ level = NoResult
    /\ AppIdle
    /\ StripIdle

\* shuffleArray applied to one array --------------------------------------

\* The longest array shuffled.
MaxShuffled == 4

\* The arrays passed: the pieces of a level of one row, in any order and any
\* number of them.
ShuffleInputs ==
    LET all == LevelData([rows |-> 1, cols |-> MaxShuffled]).pieces
    IN  {array \in UNION {[1 .. n -> {all[i] : i \in 1 .. MaxShuffled}] :
                            n \in 0 .. MaxShuffled} :
            \A i, j \in 1 .. Len(array) : array[i] = array[j] => i = j}

ShuffleIdle ==
    /\ shuffleArg = <<>>
    /\ shuffleIndexes = <<>>
    /\ shuffleResult = NoResult


\* shuffleArray(shuffleArg) runs from its call to its return: the loop
\* writes newArray, a copy, and never the argument.
CallShuffleArray ==
    /\ shuffleResult = NoResult
    /\ \E draws \in IndexDraws(Len(shuffleArg)) :
         /\ shuffleIndexes' = draws
         /\ shuffleResult' = [newArray |-> shuffleArray(shuffleArg, draws)]
    /\ shuffleArg' = shuffleArg
    /\ UNCHANGED <<genVars, bakerVars, pathVars, idVars, playVars, runVars>>

\* Invocations of generatePuzzle at the same time ----------------------------

\* The two invocations.
RunIds == {1, 2}

\* The largest grid, in cells, of an invocation that runs beside another.
MaxRunCells == 2

RunConfigs ==
    {cfg \in Configs :
        /\ cfg.gridSize.rows * cfg.gridSize.cols <= MaxRunCells
        /\ cfg.image.width = 12}

RunsIdle == runs = <<>>

\* The locals of an invocation generatePuzzle(cfg) that has run lines
\* 114-127: every one of them is declared in the function's body, the
\* module has no variable of its own.
RunStart(cfg) ==
    [pc |-> "shapes",
     config |-> cfg,
     pieceShapes |-> InitialShapes(cfg.gridSize.rows, cfg.gridSize.cols),
     r |-> 0,
     c |-> 0,
     slots |-> <<>>,
     pieces |-> <<>>,
     result |-> NoResult]

\* Invocation k runs one pass of the first loop's body (lines 130-141).
RunShapeStep(k) ==
    LET run == runs[k]
        rows == run.config.gridSize.rows
        cols == run.config.gridSize.cols
        more == NextRow(run.r, run.c, cols) < rows
    IN  /\ run.pc = "shapes"
        /\ \E uRight \in RandomDraws, uBottom \in RandomDraws :
             runs' = [runs EXCEPT ![k] =
                 [run EXCEPT
                    !.pieceShapes[run.r][run.c] =
                        CellShape(run.pieceShapes, run.r, run.c, rows, cols,
                                  uRight, uBottom),
                    !.c = NextCol(run.c, cols),
                    !.r = IF more THEN NextRow(run.r, run.c, cols) ELSE 0,
                    !.pc = IF more THEN "shapes" ELSE "pieces"]]
        /\ UNCHANGED <<genVars, bakerVars, pathVars, idVars, playVars,
                       shuffleVars>>

\* (const pieces: Piece[] = [] declared once, at the top of the module,
\* instead: every invocation pushes to the array of the first, which is
\* also the array the first returns.)
RunPieceStep_ModuleArray(k) ==
    LET run == runs[k]
        rows == run.config.gridSize.rows
        cols == run.config.gridSize.cols
        more == NextRow(run.r, run.c, cols) < rows
        first == CHOOSE j \in RunIds : \A i \in RunIds : j <= i
    IN  /\ run.pc = "pieces"
        /\ \E uX \in ScatterDraws, uY \in ScatterDraws :
             LET piece == NewPiece(run.config, run.pieceShapes, run.r, run.c,
                                   uX, uY)
                 stepped ==
                    [runs EXCEPT ![k] =
                       [run EXCEPT
                          !.slots = Append(run.slots,
                                           NewSlot(run.config, run.r, run.c)),
                          !.c = NextCol(run.c, cols),
                          !.r = IF more THEN NextRow(run.r, run.c, cols) ELSE 0,
                          !.pc = IF more THEN "pieces" ELSE "return"]]
             IN  runs' =
                    [stepped EXCEPT ![first] =
                       [stepped[first] EXCEPT
                          !.pieces = Append(stepped[first].pieces, piece),
                          !.result =
                             IF stepped[first].result = NoResult THEN NoResult
                             ELSE [stepped[first].result EXCEPT
                                     !.pieces = Append(@, piece)]]]
        /\ UNCHANGED <<genVars, bakerVars, pathVars, idVars, playVars,
                       shuffleVars>>

\* Invocation k runs one pass of the second loop's body (lines 144-165).
RunPieceStep(k) ==
    LET run == runs[k]
        rows == run.config.gridSize.rows
        cols == run.config.gridSize.cols
        more == NextRow(run.r, run.c, cols) < rows
    IN  /\ run.pc = "pieces"
        /\ \E uX \in ScatterDraws, uY \in ScatterDraws :
             runs' = [runs EXCEPT ![k] =
                 [run EXCEPT
                    !.slots = Append(run.slots,
                                     NewSlot(run.config, run.r, run.c)),
                    !.pieces = Append(run.pieces,
                                      NewPiece(run.config, run.pieceShapes,
                                               run.r, run.c, uX, uY)),
                    !.c = NextCol(run.c, cols),
                    !.r = IF more THEN NextRow(run.r, run.c, cols) ELSE 0,
                    !.pc = IF more THEN "pieces" ELSE "return"]]
        /\ UNCHANGED <<genVars, bakerVars, pathVars, idVars, playVars,
                       shuffleVars>>

\* Invocation k runs its return statement (lines 167-174).
RunReturn(k) ==
    LET run == runs[k]
    IN  /\ run.pc = "return"
        /\ \E perm \in Permutations(1 .. Len(run.pieces)) :
             runs' = [runs EXCEPT ![k] =
                 [run EXCEPT
                    !.pieces = Shuffled(run.pieces, perm),
                    !.result =
                        [pieces |-> Shuffled(run.pieces, perm),
                         slots |-> run.slots,
                         boardSize |-> [width |-> boardWidth(run.config),
                                        height |-> boardHeight(run.config)],
                         pieceSize |-> pieceSizeOnScreen(run.config),
                         pieceSizeInImage |-> pieceSizeInImage(run.config),
                         image |-> run.config.image],
                    !.pc = "done"]]
        /\ UNCHANGED <<genVars, bakerVars, pathVars, idVars, playVars,
                       shuffleVars>>

\* The screen component mounts: boardLayout, pieceData with its shuffle, and
\* one PuzzlePiece per piece.
StripMount ==
    /\ variant = "part_000"
    /\ window = NoResult
    /\ \E w \in Windows :
         \E shuffledPieces \in Shuffles(level.pieces) :
            LET data == PieceDataOf(boardLayout(w, level), shuffledPieces)
            IN  /\ window' = w
                /\ pieceData' = data
                /\ stripValues' =
                      [id \in LevelIds(level) |->
                         MountedStripPiece(
                            data[CHOOSE i \in 1 .. Len(data) : data[i].id = id],
                            FALSE, boardLayout(w, level))]
    /\ UNCHANGED <<placedPieceIds, reshuffle, shownPlaced, stripPan,
                   placedCalls, winAnimation>>
    /\ UNCHANGED <<variant, level, appVars>>
    /\ UNCHANGED <<genVars, bakerVars, pathVars, idVars, shuffleVars, runVars>>

\* gesture.onStart of a piece whose gesture is enabled (!isPlaced).
StripOnStart ==
    /\ variant = "part_000"
    /\ window # NoResult
    /\ Cardinality(stripPan) < MaxTouches
    /\ \E id \in LevelIds(level) \ (stripPan \cup shownPlaced) :
         /\ stripPan' = stripPan \cup {id}
         /\ stripValues' =
               [stripValues EXCEPT
                  ![id].startX = stripValues[id].position.x - scrollX,
                  ![id].startY = stripValues[id].position.y,
                  ![id].isDragging = TRUE,
                  ![id].scale = One]
    /\ UNCHANGED <<window, placedPieceIds, reshuffle, pieceData, shownPlaced,
                   placedCalls, winAnimation>>
    /\ UNCHANGED <<variant, level, appVars>>
    /\ UNCHANGED <<genVars, bakerVars, pathVars, idVars, shuffleVars, runVars>>

\* gesture.onUpdate: the finger has moved the piece to a point, that is
\* event.translation = point - start. Writing position.value ends the
\* animation that was taking the piece back to the strip, unfinished.
\* A gesture that a render has disabled (enabled(!isPlaced)) is cancelled:
\* it has no further update, only its onEnd.
StripOnUpdate ==
    /\ variant = "part_000"
    /\ \E id \in stripPan \ shownPlaced :
         \E point \in StripDropPoints(id) :
            LET translationX == point.x - stripValues[id].startX
                translationY == point.y - stripValues[id].startY
            IN  stripValues' =
                   [stripValues EXCEPT
                      ![id].position =
                          [x |-> stripValues[id].startX + translationX,
                           y |-> stripValues[id].startY + translationY],
                      ![id].scale =
                          IF stripValues[id].returnRunning = "shake"
                          THEN stripScale(StripLayout) ELSE @,
                      ![id].returnRunning =
                          Cancelled(stripValues[id].returnRunning)]
    /\ UNCHANGED <<window, placedPieceIds, reshuffle, pieceData, shownPlaced,
                   stripPan, placedCalls, winAnimation>>
    /\ UNCHANGED <<variant, level, appVars>>
    /\ UNCHANGED <<genVars, bakerVars, pathVars, idVars, shuffleVars, runVars>>

\* dist < SNAP_THRESHOLD of onEnd.
StripWithinThreshold(id, finalX, finalY) ==
    CloserThan(finalX - StripPiece(id).targetX, finalY - StripPiece(id).targetY,
               StripSnapThreshold(StripLayout))

\* The points at which the onEnd of a piece's pan can find the finger. A pan
\* that the finger ends has moved the piece, and the finger holds it where
\* position is. A pan of a piece that a render has shown as placed is ended
\* by that render, which disables the gesture: the piece's effect has
\* written position, and the finger is where the pan started or at any
\* point it can have moved to.
StripHeldAt(id) ==
    IF id \in shownPlaced
    THEN StripDropPoints(id)
            \cup {[x |-> stripValues[id].startX, y |-> stripValues[id].startY]}
    ELSE {stripValues[id].position} \cap StripDropPoints(id)

\* gesture.onEnd, the finger released where it holds the piece: a pan has
\* moved the piece before it ends, and the event carries the translation of
\* the last onUpdate, so that startX + translationX is position.x. A spring
\* of scale or to the slot is at its end at once; the sequence that shakes
\* the piece runs until StripShakeFinished and the spring that takes it back
\* to the strip until StripReturnFinished.
\* onPiecePlaced is the function of the last render: the call carries the
\* placedPieceIds that render had. startX and startY are read only between
\* the onStart that writes them and this onEnd: they are forgotten here.
StripOnEnd ==
    /\ variant = "part_000"
    /\ Len(placedCalls) < MaxCalls
    /\ \E id \in stripPan :
         \E held \in StripHeldAt(id) :
            LET translationX == held.x - stripValues[id].startX
                translationY == held.y - stripValues[id].startY
                finalX == stripValues[id].startX + translationX
                finalY == stripValues[id].startY + translationY
            IN  /\ stripPan' = stripPan \ {id}
                /\ IF StripWithinThreshold(id, finalX, finalY)
                   THEN /\ stripValues' =
                              [stripValues EXCEPT
                                 ![id].startX = 0,
                                 ![id].startY = 0,
                                 ![id].isDragging = FALSE,
                                 ![id].isSnapped = TRUE,
                                 ![id].position = [x |-> StripPiece(id).targetX,
                                                   y |-> StripPiece(id).targetY],
                                 ![id].scale =
                                     IF stripValues[id].returnRunning = "shake"
                                     THEN stripScale(StripLayout) ELSE One,
                                 ![id].returnRunning =
                                     Cancelled(stripValues[id].returnRunning)]
                        /\ placedCalls' =
                              Append(placedCalls,
                                     [id |-> StripPiece(id).id,
                                      placedPieceIds |-> shownPlaced])
                   ELSE /\ stripValues' =
                              [stripValues EXCEPT
                                 ![id].startX = 0,
                                 ![id].startY = 0,
                                 ![id].isDragging = FALSE,
                                 ![id].isReturning = TRUE,
                                 ![id].position = [x |-> finalX, y |-> finalY],
                                 ![id].scale =
                                     IF stripValues[id].returnRunning = "shake"
                                     THEN stripScale(StripLayout) ELSE @,
                                 ![id].returnRunning =
                                     IF stripValues[id].returnRunning = "shake"
                                     THEN "spring" ELSE "shake"]
                        /\ placedCalls' = placedCalls
    /\ UNCHANGED <<window, placedPieceIds, reshuffle, pieceData, shownPlaced,
                   winAnimation>>
    /\ UNCHANGED <<variant, level, appVars>>
    /\ UNCHANGED <<genVars, bakerVars, pathVars, idVars, shuffleVars, runVars>>

\* The shake has run to its end: the callback of the fourth withTiming
\* starts the spring of position to the strip and the spring of scale.
StripShakeFinished ==
    /\ variant = "part_000"
    /\ \E id \in LevelIds(level) :
         /\ window # NoResult
         /\ stripValues[id].returnRunning = "shake"
         /\ stripValues' =
               [stripValues EXCEPT
                  ![id].scale = stripScale(StripLayout),
                  ![id].returnRunning = "spring"]
    /\ UNCHANGED <<window, placedPieceIds, reshuffle, pieceData, shownPlaced,
                   stripPan, placedCalls, winAnimation>>
    /\ UNCHANGED <<variant, level, appVars>>
    /\ UNCHANGED <<genVars, bakerVars, pathVars, idVars, shuffleVars, runVars>>

\* The spring back to the strip has run to its end: its callback, called
\* with finished = true.
StripReturnFinished ==
    /\ variant = "part_000"
    /\ \E id \in LevelIds(level) :
         /\ window # NoResult
         /\ stripValues[id].returnRunning = "spring"
         /\ stripValues' =
               [stripValues EXCEPT
                  ![id].position = [x |-> StripPiece(id).initialX,
                                    y |-> StripPiece(id).initialY],
                  ![id].isReturning = FALSE,
                  ![id].returnRunning = "no"]
    /\ UNCHANGED <<window, placedPieceIds, reshuffle, pieceData, shownPlaced,
                   stripPan, placedCalls, winAnimation>>
    /\ UNCHANGED <<variant, level, appVars>>
    /\ UNCHANGED <<genVars, bakerVars, pathVars, idVars, shuffleVars, runVars>>

\* onPiecePlaced(id) on the JS thread: the set it extends is the one of the
\* render its closure belongs to.
OnPiecePlaced ==
    /\ variant = "part_000"
    /\ placedCalls # <<>>
    /\ LET call == Head(placedCalls)
           newPlacedIds == call.placedPieceIds \cup {call.id}
       IN  placedPieceIds' = newPlacedIds
    /\ placedCalls' = Tail(placedCalls)
    /\ UNCHANGED <<window, reshuffle, pieceData, shownPlaced, stripValues,
                   stripPan, winAnimation>>
    /\ UNCHANGED <<variant, level, appVars>>
    /\ UNCHANGED <<genVars, bakerVars, pathVars, idVars, shuffleVars, runVars>>

\* The effect of a PuzzlePiece, run after a render that changed isPlaced or
\* the piece's initialX.
PieceEffect(values, piece, isPlaced, layout) ==
    IF isPlaced
    THEN [values EXCEPT !.position = [x |-> piece.targetX, y |-> piece.targetY],
                        !.scale = IF values.returnRunning = "shake"
                                  THEN stripScale(layout) ELSE One,
                        !.isSnapped = TRUE,
                        !.returnRunning = Cancelled(values.returnRunning)]
    ELSE IF ~values.isDragging /\ ~values.isReturning
         THEN [values EXCEPT
                 !.position = [x |-> piece.initialX, y |-> piece.initialY],
                 !.scale = stripScale(layout),
                 !.isSnapped = FALSE,
                 !.returnRunning = Cancelled(values.returnRunning)]
         ELSE values

\* The screen component renders its state: pieceData anew if shuffleSeed
\* changed, isPlaced of every piece, the pieces' effects and the effect
\* that shows the win panel.
StripRender ==
    /\ variant = "part_000"
    /\ window # NoResult
    /\ (shownPlaced # placedPieceIds \/ reshuffle)
    /\ \E shuffledPieces \in
             IF reshuffle THEN Shuffles(level.pieces) ELSE {level.pieces} :
         LET data == IF reshuffle THEN PieceDataOf(StripLayout, shuffledPieces)
                     ELSE pieceData
             pieceOf(id) == data[CHOOSE i \in 1 .. Len(data) : data[i].id = id]
         IN  /\ pieceData' = data
             /\ stripValues' =
                   [id \in LevelIds(level) |->
                      IF (id \in placedPieceIds) # (id \in shownPlaced)
                         \/ pieceOf(id).initialX # StripPiece(id).initialX
                      THEN PieceEffect(stripValues[id], pieceOf(id),
                                       id \in placedPieceIds, StripLayout)
                      ELSE stripValues[id]]
    /\ shownPlaced' = placedPieceIds
    /\ reshuffle' = FALSE
    /\ winAnimation' = IF allPiecesPlaced THEN 1 ELSE winAnimation
    /\ UNCHANGED <<window, placedPieceIds, stripPan, placedCalls>>
    /\ UNCHANGED <<variant, level, appVars>>
    /\ UNCHANGED <<genVars, bakerVars, pathVars, idVars, shuffleVars, runVars>>

\* handleResetLevel, the onPress of the button of the win panel, which takes
\* touches while winAnimation is not 0. The JS thread runs what it is sent
\* in order: the calls a worklet sent before the press have run. The panel
\* appears 500 ms after the render that disabled the placed pieces'
\* gestures: a pan that render cancelled has ended.
HandleResetLevel ==
    /\ variant = "part_000"
    /\ winAnimation # 0
    /\ placedCalls = <<>>
    /\ stripPan \cap shownPlaced = {}
    /\ winAnimation' = 0
    /\ placedPieceIds' = {}
    /\ reshuffle' = TRUE
    /\ UNCHANGED <<window, pieceData, shownPlaced, stripValues, stripPan,
                   placedCalls>>
    /\ UNCHANGED <<variant, level, appVars>>
    /\ UNCHANGED <<genVars, bakerVars, pathVars, idVars, shuffleVars, runVars>>

----------------------------------------------------------------------------
(* Specifications *)

\* generatePuzzle, from its call to its return.
Init ==
    /\ \E cfg \in Configs :
         /\ cfg.gridSize.rows * cfg.gridSize.cols <= MaxCells
         /\ GenStart(cfg)
    /\ BakerIdle
    /\ PathIdle
    /\ IdIdle
    /\ PlayIdle
    /\ ShuffleIdle
    /\ RunsIdle

Next == ShapeStep \/ PieceStep \/ Return

Spec == Init /\ [][Next]_vars

\* generatePuzzle called with any configuration of integers.
InitCalls ==
    /\ \E cfg \in CallConfigs :
         /\ cfg.gridSize.rows * cfg.gridSize.cols <= MaxCallCells
         /\ GenCall(cfg)
    /\ BakerIdle
    /\ PathIdle
    /\ IdIdle
    /\ PlayIdle
    /\ ShuffleIdle
    /\ RunsIdle

NextCalls == Allocate \/ ShapeStep \/ PieceStep \/ Return

SpecCalls == InitCalls /\ [][NextCalls]_vars

\* The first loop of generatePuzzle alone, on every grid of the bounds.
InitShapes ==
    /\ \E cfg \in Configs : GenStart(cfg)
    /\ BakerIdle
    /\ PathIdle
    /\ IdIdle
    /\ PlayIdle
    /\ ShuffleIdle
    /\ RunsIdle

NextShapes == ShapeStep

SpecShapes == InitShapes /\ [][NextShapes]_vars

\* generateAssets, from its call to its last write.
InitBaker ==
    /\ GenIdle
    /\ \E bcfg \in BakerConfigs :
         /\ bcfg.gridSize.rows * bcfg.gridSize.cols <= MaxCells
         /\ BakerStart(bcfg)
    /\ PathIdle
    /\ IdIdle
    /\ PlayIdle
    /\ ShuffleIdle
    /\ RunsIdle

NextBaker == BakerPrepare \/ BakerShapeStep \/ BakerPieceStep \/ BakerWrite

SpecBaker == InitBaker /\ [][NextBaker]_vars

\* The shape loop of generateAssets alone, on every grid of the bounds.
InitBakerShapes ==
    /\ GenIdle
    /\ \E bcfg \in BakerConfigs : BakerStart(bcfg)
    /\ PathIdle
    /\ IdIdle
    /\ PlayIdle
    /\ ShuffleIdle
    /\ RunsIdle

NextBakerShapes == BakerPrepare \/ BakerShapeStep

SpecBakerShapes == InitBakerShapes /\ [][NextBakerShapes]_vars

\* The two buildPiecePath functions on every signature.
InitPath ==
    /\ GenIdle
    /\ BakerIdle
    /\ sig \in Shapes
    /\ psize \in 1 .. MaxPieceSize
    /\ ipath = NoResult
    /\ bpath = NoResult
    /\ IdIdle
    /\ PlayIdle
    /\ ShuffleIdle
    /\ RunsIdle

NextPath == CallBuildPiecePath \/ CallBakerBuildPiecePath

SpecPath == InitPath /\ [][NextPath]_vars

\* One id, from the cell it names to what the two apps read from it.
InitIds ==
    /\ GenIdle
    /\ BakerIdle
    /\ PathIdle
    /\ idRow \in 0 .. MaxIndex
    /\ idCol \in 0 .. MaxIndex
    /\ idText = NoResult
    /\ appCell = NoResult
    /\ stripCell = NoResult
    /\ PlayIdle
    /\ ShuffleIdle
    /\ RunsIdle

NextIds == BuildId \/ AppReadId \/ StripReadId

SpecIds == InitIds /\ [][NextIds]_vars

\* A game of one level, played in one of the two apps.
InitPlay ==
    /\ GenIdle
    /\ BakerIdle
    /\ PathIdle
    /\ IdIdle
    /\ variant \in {"App.tsx", "part_000"}
    /\ level \in Levels
    /\ AppIdle
    /\ StripIdle
    /\ ShuffleIdle
    /\ RunsIdle

NextPlay ==
    \/ AppSetup \/ AppOnStart \/ AppOnUpdate \/ AppOnEnd
    \/ HandleSnap \/ AppRender \/ HandleReset
    \/ StripMount \/ StripOnStart \/ StripOnUpdate \/ StripOnEnd
    \/ StripShakeFinished \/ StripReturnFinished \/ OnPiecePlaced
    \/ StripRender \/ HandleResetLevel

SpecPlay == InitPlay /\ [][NextPlay]_vars

\* shuffleArray on every array of up to MaxShuffled distinct elements.
InitShuffle ==
    /\ GenIdle
    /\ BakerIdle
    /\ PathIdle
    /\ IdIdle
    /\ PlayIdle
    /\ shuffleArg \in ShuffleInputs
    /\ shuffleIndexes = <<>>
    /\ shuffleResult = NoResult
    /\ RunsIdle

NextShuffle == CallShuffleArray

SpecShuffle == InitShuffle /\ [][NextShuffle]_vars

\* The first loop of generatePuzzle on every grid of up to MaxGridCells
\* cells.
InitGrids ==
    /\ \E cfg \in Configs :
         /\ cfg.gridSize.rows * cfg.gridSize.cols <= MaxGridCells
         /\ GenStart(cfg)
    /\ BakerIdle
    /\ PathIdle
    /\ IdIdle
    /\ PlayIdle
    /\ ShuffleIdle
    /\ RunsIdle

NextGrids == ShapeStep

SpecGrids == InitGrids /\ [][NextGrids]_vars

\* Two invocations of generatePuzzle whose steps interleave in any order,
\* one after the other among them.
InitRuns ==
    /\ GenIdle
    /\ BakerIdle
    /\ PathIdle
    /\ IdIdle
    /\ PlayIdle
    /\ ShuffleIdle
    /\ runs \in [RunIds -> {RunStart(cfg) : cfg \in RunConfigs}]

NextRuns ==
    \E k \in RunIds : RunShapeStep(k) \/ RunPieceStep(k) \/ RunReturn(k)

SpecRuns == InitRuns /\ [][NextRuns]_vars

\* A game of part_000 on a level of one piece, in which what runs by
\* itself does run: a render that is due, a call waiting for the JS thread
\* and a return animation are not put off for ever, and a finger that drags
\* a piece moves and is lifted. Nothing makes the player start a drag or
\* press a button.
InitStrip ==
    /\ GenIdle
    /\ BakerIdle
    /\ PathIdle
    /\ IdIdle
    /\ variant = "part_000"
    /\ level \in {lvl \in Levels : Len(lvl.pieces) = 1}
    /\ AppIdle
    /\ StripIdle
    /\ ShuffleIdle
    /\ RunsIdle

NextStrip ==
    \/ StripMount \/ StripOnStart \/ StripOnUpdate \/ StripOnEnd
    \/ StripShakeFinished \/ StripReturnFinished \/ OnPiecePlaced
    \/ StripRender \/ HandleResetLevel

SpecStripFair ==
    /\ InitStrip
    /\ [][NextStrip]_vars
    /\ WF_vars(StripRender)
    /\ WF_vars(OnPiecePlaced)
    /\ WF_vars(StripShakeFinished)
    /\ WF_vars(StripReturnFinished)
    /\ WF_vars(StripOnUpdate)
    /\ WF_vars(StripOnEnd)

----------------------------------------------------------------------------
(* How a path is drawn (SVG path data): the segments a path traces.        *)
(* A segment is [op, p0, c1, c2, p1]: a cubic Bezier curve from p0 to p1   *)
(* with control points c1 and c2, or a straight line from p0 to p1 (then   *)
(* c1 = p0 and c2 = p1).  "M" is absolute, "l", "c" and "s" are relative   *)
(* to the current point, and the first control point of "s" is the         *)
(* reflection of the previous curve's second control point.                *)

PAdd(p, q) == <<p[1] + q[1], p[2] + q[2]>>
PSub(p, q) == <<p[1] - q[1], p[2] - q[2]>>

\* cur: the current point; refl: the first control point a following "s"
\* takes; origin: where the path's own (0,0) lies.
RECURSIVE PathSegmentsFrom(_, _, _, _, _)
PathSegmentsFrom(path, i, cur, refl, origin) ==
    IF i > Len(path) THEN <<>>
    ELSE LET a == path[i].a
         IN CASE path[i].op = "M" ->
                   PathSegmentsFrom(path, i + 1, PAdd(origin, <<a[1], a[2]>>),
                                    PAdd(origin, <<a[1], a[2]>>), origin)
              [] path[i].op = "l" ->
                   LET p1 == PAdd(cur, <<a[1], a[2]>>)
                   IN <<[op |-> "l", p0 |-> cur, c1 |-> cur, c2 |-> p1, p1 |-> p1]>>
                      \o PathSegmentsFrom(path, i + 1, p1, p1, origin)
              [] path[i].op = "c" ->
                   LET c2 == PAdd(cur, <<a[3], a[4]>>)
                       p1 == PAdd(cur, <<a[5], a[6]>>)
                   IN <<[op |-> "c", p0 |-> cur, c1 |-> PAdd(cur, <<a[1], a[2]>>),
                         c2 |-> c2, p1 |-> p1]>>
                      \o PathSegmentsFrom(path, i + 1, p1,
                                          PSub(PAdd(p1, p1), c2), origin)
              [] path[i].op = "s" ->
                   LET c2 == PAdd(cur, <<a[1], a[2]>>)
                       p1 == PAdd(cur, <<a[3], a[4]>>)
                   IN <<[op |-> "c", p0 |-> cur, c1 |-> refl, c2 |-> c2, p1 |-> p1]>>
                      \o PathSegmentsFrom(path, i + 1, p1,
                                          PSub(PAdd(p1, p1), c2), origin)
              [] OTHER -> <<>>

PathSegments(path, origin) == PathSegmentsFrom(path, 1, origin, origin, origin)

\* The same segment, and the same run of segments, traversed backwards.
ReverseSegment(g) ==
    [op |-> g.op, p0 |-> g.p1, c1 |-> g.c2, c2 |-> g.c1, p1 |-> g.p0]
ReverseSegments(gs) ==
    [i \in 1 .. Len(gs) |-> ReverseSegment(gs[Len(gs) + 1 - i])]

Sides == <<"top", "right", "bottom", "left">>
SideIndex(side) == CHOOSE i \in 1 .. 4 : Sides[i] = side

\* The number of commands of one edge: one for a FLAT edge, tabLen for a
\* tab (2 in the interactive generator, 3 in the baker).
EdgeLen(edgeType, tabLen) == IF edgeType = EdgeType_FLAT THEN 1 ELSE tabLen

RECURSIVE EdgeOffset(_, _, _)
EdgeOffset(shape, k, tabLen) ==
    IF k = 1 THEN 0
    ELSE EdgeOffset(shape, k - 1, tabLen) + EdgeLen(shape[Sides[k - 1]], tabLen)

\* The commands of one side in a path built by buildPiecePath.
EdgeCommands(path, shape, side, tabLen) ==
    SubSeq(path, 2 + EdgeOffset(shape, SideIndex(side), tabLen),
           1 + EdgeOffset(shape, SideIndex(side), tabLen)
             + EdgeLen(shape[side], tabLen))

\* The segments of one side of a piece whose path is drawn at origin.
EdgeSegments(path, shape, side, origin, tabLen) ==
    SubSeq(PathSegments(path, origin),
           1 + EdgeOffset(shape, SideIndex(side), tabLen),
           EdgeOffset(shape, SideIndex(side), tabLen)
             + EdgeLen(shape[side], tabLen))

\* The sum of the commands' relative end points.
RECURSIVE NetDisplacement(_)
NetDisplacement(cmds) ==
    IF cmds = <<>> THEN <<0, 0>>
    ELSE LET a == Head(cmds).a
         IN PAdd(<<a[Len(a) - 1], a[Len(a)]>>, NetDisplacement(Tail(cmds)))

----------------------------------------------------------------------------
(* The claims *)

Rows == config.gridSize.rows
Cols == config.gridSize.cols

\* One IN, the other OUT.
Complementary(a, b) == {a, b} = {EdgeType_IN, EdgeType_OUT}

\* The first loop of generatePuzzle has finished.
ShapesBuilt == pc \in {"pieces", "return", "done"}

\* C1: in every grid generatePuzzle builds, whatever the draws, the right
\* edge of a cell and the left edge of the cell to its right are
\* complementary (one IN, one OUT), and so are the bottom edge of a cell and
\* the top edge of the cell below it.
C1_EdgeMatching ==
    ShapesBuilt =>
        \A row \in 0 .. Rows - 1, col \in 0 .. Cols - 1 :
            /\ col + 1 < Cols =>
                  Complementary(pieceShapes[row][col].right,
                                pieceShapes[row][col + 1].left)
            /\ row + 1 < Rows =>
                  Complementary(pieceShapes[row][col].bottom,
                                pieceShapes[row + 1][col].top)

\* A finished 2x3 grid in which both draws came out both ways.
C1_Witness ==
    /\ ShapesBuilt
    /\ Rows = 2
    /\ Cols = 3
    /\ pieceShapes[0][0].right = EdgeType_IN
    /\ pieceShapes[0][1].right = EdgeType_OUT
    /\ pieceShapes[0][0].bottom = EdgeType_OUT
    /\ pieceShapes[0][1].bottom = EdgeType_IN

\* The plain square of side pieceSize.
SquarePath(pieceSize) ==
    <<CmdM(0, 0), CmdL(Px(pieceSize), 0), CmdL(0, Px(pieceSize)),
      CmdL(-Px(pieceSize), 0), CmdL(0, -Px(pieceSize)), CmdZ>>

\* C2: in every grid generatePuzzle builds, the cells of row 0 have a FLAT
\* top, those of the last row a FLAT bottom, those of column 0 a FLAT left
\* and those of the last column a FLAT right; the cell of a 1x1 grid has
\* four FLAT edges, and the outline line 158 builds for it is the plain
\* square of the piece size.
C2_BoundaryFlat ==
    ShapesBuilt =>
        /\ \A col \in 0 .. Cols - 1 :
              /\ pieceShapes[0][col].top = EdgeType_FLAT
              /\ pieceShapes[Rows - 1][col].bottom = EdgeType_FLAT
        /\ \A row \in 0 .. Rows - 1 :
              /\ pieceShapes[row][0].left = EdgeType_FLAT
              /\ pieceShapes[row][Cols - 1].right = EdgeType_FLAT
        /\ (Rows = 1 /\ Cols = 1) =>
              /\ pieceShapes[0][0] = FlatShape
              /\ buildPiecePath(pieceShapes[0][0], pieceSizeInImage(config))
                    = SquarePath(pieceSizeInImage(config))

\* A finished 2x3 grid whose interior edges are not flat.
C2_Witness ==
    /\ ShapesBuilt
    /\ Rows = 2
    /\ Cols = 3
    /\ pieceShapes[1][1].top # EdgeType_FLAT
    /\ pieceShapes[1][1].left # EdgeType_FLAT
    /\ pieceShapes[1][1].right # EdgeType_FLAT

\* The piece of cell (row, col) in a list of pieces or of masks.
HasCell(list, row, col) == \E i \in 1 .. Len(list) : list[i].id = PieceId(row, col)
AtCell(list, row, col) ==
    list[CHOOSE i \in 1 .. Len(list) : list[i].id = PieceId(row, col)]

\* The segments of one side of a generated piece, in the coordinates of
\* the source image: the piece's (0,0) lies at (sourceX, sourceY).
PieceEdge(piece, side) ==
    EdgeSegments(piece.svgClipPath, piece.shape, side,
                 <<Px(piece.sourceX), Px(piece.sourceY)>>, 2)

\* The two sides of a shared edge are one curve, traversed in opposite
\* directions: same end points, same apex, same control points.
Mirrored(edgeA, edgeB) == edgeA = ReverseSegments(edgeB)

\* C3: in a generated puzzle, for every two adjacent pieces whose shared
\* edge has complementary types, the curve drawn for that edge on one piece
\* is, in board coordinates, the curve drawn on the neighbour's matching
\* side traversed in the opposite direction (end points, apex and Bezier
\* control points).
C3_MirroredCurves ==
    pc = "done" =>
        \A row \in 0 .. Rows - 1, col \in 0 .. Cols - 1 :
            /\ (/\ col + 1 < Cols
                /\ Complementary(AtCell(result.pieces, row, col).shape.right,
                                 AtCell(result.pieces, row, col + 1).shape.left))
               => Mirrored(PieceEdge(AtCell(result.pieces, row, col), "right"),
                           PieceEdge(AtCell(result.pieces, row, col + 1), "left"))
            /\ (/\ row + 1 < Rows
                /\ Complementary(AtCell(result.pieces, row, col).shape.bottom,
                                 AtCell(result.pieces, row + 1, col).shape.top))
               => Mirrored(PieceEdge(AtCell(result.pieces, row, col), "bottom"),
                           PieceEdge(AtCell(result.pieces, row + 1, col), "top"))

\* What the two sides of a shared edge do have in common: the end points
\* and the apex (the point where the two curves of a side meet).
SameEndsAndApex(edgeA, edgeB) ==
    /\ Len(edgeA) = 2
    /\ Len(edgeB) = 2
    /\ edgeA[1].p0 = edgeB[2].p1
    /\ edgeA[1].p1 = edgeB[1].p1
    /\ edgeA[2].p1 = edgeB[1].p0

\* (Holds under Spec: the mismatch of C3 is in the control points alone.)
C3_EndsAndApexAgree ==
    pc = "done" =>
        \A row \in 0 .. Rows - 1, col \in 0 .. Cols - 1 :
            /\ col + 1 < Cols =>
                  SameEndsAndApex(PieceEdge(AtCell(result.pieces, row, col), "right"),
                                  PieceEdge(AtCell(result.pieces, row, col + 1), "left"))
            /\ row + 1 < Rows =>
                  SameEndsAndApex(PieceEdge(AtCell(result.pieces, row, col), "bottom"),
                                  PieceEdge(AtCell(result.pieces, row + 1, col), "top"))

\* The baker ----------------------------------------------------------------

BRows == bconfig.gridSize.rows
BCols == bconfig.gridSize.cols

\* The segments of one side of a baked piece, in the coordinates of the
\* stretched image: the sprite was cut at (left, top) of the image padded
\* by PADDING on every side, and the mask is drawn in the sprite.
MaskEdge(mask, side) ==
    EdgeSegments(mask.path, bakerShapes[mask.row][mask.col], side,
                 <<Px(mask.left - Padding(bakerPieceSize(bconfig))),
                   Px(mask.top - Padding(bakerPieceSize(bconfig)))>>, 3)

\* The curve of a baked tab (its side's second segment), its lateral
\* height (how far the control points lie off the edge line) and its width.
Abs(n) == IF n < 0 THEN -n ELSE n
Dist(p, q) == Abs(p[1] - q[1]) + Abs(p[2] - q[2])
TabCurve(edge) == edge[2]
TabHeight(edge) == Dist(TabCurve(edge).c1, TabCurve(edge).p0)
TabWidth(edge) == Dist(TabCurve(edge).p1, TabCurve(edge).p0)

BakedMatch(edgeA, edgeB) ==
    /\ TabHeight(edgeA) = TabHeight(edgeB)
    /\ TabWidth(edgeA) = TabWidth(edgeB)
    /\ Mirrored(edgeA, edgeB)

\* C4: in the baker, for every two adjacent pieces and every outcome of the
\* jitter draws, the tab drawn for the shared edge on one piece has the
\* same lateral height and the same width as the notch drawn on the
\* neighbour's matching side, and the two outlines coincide along the
\* shared edge (no gap, no overlap).
C4_BakedEdgesMatch ==
    \A row \in 0 .. BRows - 1, col \in 0 .. BCols - 1 :
        /\ (col + 1 < BCols /\ HasCell(masks, row, col) /\ HasCell(masks, row, col + 1))
           => BakedMatch(MaskEdge(AtCell(masks, row, col), "right"),
                         MaskEdge(AtCell(masks, row, col + 1), "left"))
        /\ (row + 1 < BRows /\ HasCell(masks, row, col) /\ HasCell(masks, row + 1, col))
           => BakedMatch(MaskEdge(AtCell(masks, row, col), "bottom"),
                         MaskEdge(AtCell(masks, row + 1, col), "top"))

\* (Holds under SpecBaker: two sides of equal height do coincide, so the
\* mismatch of C4 comes from the two jitter draws alone.)
C4_EqualHeightsMatch ==
    \A row \in 0 .. BRows - 1, col \in 0 .. BCols - 1 :
        /\ (/\ col + 1 < BCols /\ HasCell(masks, row, col)
            /\ HasCell(masks, row, col + 1)
            /\ TabHeight(MaskEdge(AtCell(masks, row, col), "right"))
                 = TabHeight(MaskEdge(AtCell(masks, row, col + 1), "left")))
           => Mirrored(MaskEdge(AtCell(masks, row, col), "right"),
                       MaskEdge(AtCell(masks, row, col + 1), "left"))
        /\ (/\ row + 1 < BRows /\ HasCell(masks, row, col)
            /\ HasCell(masks, row + 1, col)
            /\ TabHeight(MaskEdge(AtCell(masks, row, col), "bottom"))
                 = TabHeight(MaskEdge(AtCell(masks, row + 1, col), "top")))
           => Mirrored(MaskEdge(AtCell(masks, row, col), "bottom"),
                       MaskEdge(AtCell(masks, row + 1, col), "top"))

\* One signature -----------------------------------------------------------

\* The displacement an edge must make, in pixels times 1/Scale.
EdgeDisplacement(side, pieceSize) ==
    CASE side = "top" -> <<Px(pieceSize), 0>>
      [] side = "right" -> <<0, Px(pieceSize)>>
      [] side = "bottom" -> <<-Px(pieceSize), 0>>
      [] side = "left" -> <<0, -Px(pieceSize)>>

\* The path ends with Z, and just before Z it is back at its start (0,0).
ReturnsToStart(path) ==
    /\ path[1] = CmdM(0, 0)
    /\ path[Len(path)] = CmdZ
    /\ PathSegments(path, <<0, 0>>)[Len(path) - 2].p1 = <<0, 0>>

ClosedPath(path, shape, pieceSize, tabLen) ==
    /\ \A k \in 1 .. 4 :
          NetDisplacement(EdgeCommands(path, shape, Sides[k], tabLen))
             = EdgeDisplacement(Sides[k], pieceSize)
    /\ ReturnsToStart(path)

InSquare(p, pieceSize) ==
    /\ 0 <= p[1]
    /\ p[1] <= Px(pieceSize)
    /\ 0 <= p[2]
    /\ p[2] <= Px(pieceSize)

\* The apex of a tab of the interactive generator: where its two curves meet.
Apex(path, shape, side) == EdgeSegments(path, shape, side, <<0, 0>>, 2)[1].p1

\* C6: in the outline of the interactive generator, on each of the four
\* sides the apex of an OUT edge lies outside the piece's own square and
\* the apex of an IN edge lies inside it.
C6_OutProtrudes ==
    ipath # NoResult =>
        \A k \in 1 .. 4 :
            /\ sig[Sides[k]] = EdgeType_OUT
                  => ~InSquare(Apex(ipath, sig, Sides[k]), psize)
            /\ sig[Sides[k]] = EdgeType_IN
                  => InSquare(Apex(ipath, sig, Sides[k]), psize)

\* (Holds under SpecPath: what the code draws is the opposite, on all four
\* sides alike.)
C6_InProtrudes ==
    ipath # NoResult =>
        \A k \in 1 .. 4 :
            /\ sig[Sides[k]] = EdgeType_IN
                  => ~InSquare(Apex(ipath, sig, Sides[k]), psize)
            /\ sig[Sides[k]] = EdgeType_OUT
                  => InSquare(Apex(ipath, sig, Sides[k]), psize)

\* A baked tab points away from the piece's interior: the control points
\* of its curve lie outside the piece's own square.
PointsOutward(path, shape, side, pieceSize) ==
    ~InSquare(TabCurve(EdgeSegments(path, shape, side, <<0, 0>>, 3)).c1, pieceSize)

\* C7: in the baker, the direction of a tab relative to the piece's own
\* interior depends on the edge type alone, not on the side: two sides of
\* one piece that have the same type (OUT, or IN) both point away from the
\* interior or both point into it.
C7_SameDirectionOnAllSides ==
    bpath # NoResult =>
        \A j \in 1 .. 4, k \in 1 .. 4 :
            (sig[Sides[j]] # EdgeType_FLAT /\ sig[Sides[j]] = sig[Sides[k]])
            => (PointsOutward(bpath, sig, Sides[j], psize)
                  <=> PointsOutward(bpath, sig, Sides[k], psize))

\* (Holds under SpecPath: what the baker draws.  OUT points away from the
\* interior on the right and left sides and into it on the top and bottom
\* sides; IN the other way round.)
C7_DirectionBySide ==
    bpath # NoResult =>
        \A k \in 1 .. 4 :
            sig[Sides[k]] # EdgeType_FLAT =>
                (PointsOutward(bpath, sig, Sides[k], psize)
                   <=> (sig[Sides[k]] = EdgeType_OUT
                          <=> Sides[k] \in {"right", "left"}))

\* The coordinate along a side (x on top and bottom, y on right and left)
\* and the one across it.
Along(side, p) == IF side \in {"top", "bottom"} THEN p[1] ELSE p[2]
Across(side, p) == IF side \in {"top", "bottom"} THEN p[2] ELSE p[1]

InteractiveEdge(side) == EdgeSegments(ipath, sig, side, <<0, 0>>, 2)

\* C8 as stated: every IN or OUT edge of the interactive generator is a
\* straight segment, a curved tab and a second straight segment; the tab's
\* footprint along the edge is 0.4*P wide and centred on the edge's
\* midpoint, and the three parts sum to P along the edge.
C8_StraightTabStraight ==
    ipath # NoResult =>
        \A k \in 1 .. 4 :
            sig[Sides[k]] # EdgeType_FLAT =>
                LET edge == InteractiveEdge(Sides[k])
                    n == Len(edge)
                IN /\ n >= 3
                   /\ edge[1].op = "l"
                   /\ edge[n].op = "l"
                   /\ \A i \in 2 .. n - 1 : edge[i].op = "c"
                   /\ 10 * Dist(edge[2].p0, edge[n - 1].p1) = 4 * Px(psize)
                   /\ Dist(edge[1].p0, edge[1].p1) = Dist(edge[n].p0, edge[n].p1)
                   /\ PSub(edge[n].p1, edge[1].p0) = EdgeDisplacement(Sides[k], psize)

\* C8, amended: every IN or OUT edge of the interactive generator is two
\* curve commands (c, then s) and no straight segment; the curve spans the
\* whole edge, each command advancing P/2 along the edge, P in all; the two
\* curves meet at the edge's midpoint, 0.4*P off the edge line, and the
\* second returns to the edge line.
C8_TwoCurvesSpanEdge ==
    ipath # NoResult =>
        \A k \in 1 .. 4 :
            sig[Sides[k]] # EdgeType_FLAT =>
                LET side == Sides[k]
                    cmds == EdgeCommands(ipath, sig, side, 2)
                    d1 == NetDisplacement(<<cmds[1]>>)
                    d2 == NetDisplacement(<<cmds[2]>>)
                    whole == EdgeDisplacement(side, psize)
                IN /\ Len(cmds) = 2
                   /\ cmds[1].op = "c"
                   /\ cmds[2].op = "s"
                   /\ 2 * Along(side, d1) = Along(side, whole)
                   /\ 2 * Along(side, d2) = Along(side, whole)
                   /\ 10 * Abs(Across(side, d1)) = 4 * Px(psize)
                   /\ Across(side, d1) + Across(side, d2) = 0
                   /\ PAdd(d1, d2) = whole

\* The interactive buildPiecePath has returned an outline with IN and OUT
\* edges.
C8_Witness ==
    /\ ipath # NoResult
    /\ psize = MaxPieceSize
    /\ sig = [top |-> EdgeType_OUT, right |-> EdgeType_IN,
              bottom |-> EdgeType_FLAT, left |-> EdgeType_OUT]

\* The shape loop of generateAssets has finished.
BakerShapesBuilt == bpc \in {"pieces", "write", "done"}

\* C9: for every grid and each of the three policies patternChoice selects,
\* the baker's finished grid has FLAT edges on its four borders and
\* complementary (one IN, one OUT) types on every shared edge.
C9_BakerGrid ==
    BakerShapesBuilt =>
        /\ \A col \in 0 .. BCols - 1 :
              /\ bakerShapes[0][col].top = EdgeType_FLAT
              /\ bakerShapes[BRows - 1][col].bottom = EdgeType_FLAT
        /\ \A row \in 0 .. BRows - 1 :
              /\ bakerShapes[row][0].left = EdgeType_FLAT
              /\ bakerShapes[row][BCols - 1].right = EdgeType_FLAT
        /\ \A row \in 0 .. BRows - 1, col \in 0 .. BCols - 1 :
              /\ col + 1 < BCols =>
                    Complementary(bakerShapes[row][col].right,
                                  bakerShapes[row][col + 1].left)
              /\ row + 1 < BRows =>
                    Complementary(bakerShapes[row][col].bottom,
                                  bakerShapes[row + 1][col].top)

\* A finished grid of the third policy, whose edges alternate with the
\* parity of the column and of the row.
C9_Witness ==
    /\ BakerShapesBuilt
    /\ Pattern(patternChoice) = 3
    /\ BRows >= 3
    /\ BCols >= 4
    /\ bakerShapes[0][0].right = EdgeType_OUT
    /\ bakerShapes[0][1].right = EdgeType_IN
    /\ bakerShapes[0][2].right = EdgeType_OUT
    /\ bakerShapes[0][0].bottom = EdgeType_IN
    /\ bakerShapes[1][0].bottom = EdgeType_OUT

Ids(list) == {list[i].id : i \in 1 .. Len(list)}

\* C10: in the PuzzleData generatePuzzle returns, pieces and slots both
\* have rows*cols elements, the piece ids are pairwise distinct, and the
\* set of piece ids is the set of slot ids, whatever the shuffle did.
C10_Cardinality ==
    pc = "done" =>
        /\ Len(result.pieces) = Rows * Cols
        /\ Len(result.slots) = Rows * Cols
        /\ \A i, j \in 1 .. Len(result.pieces) :
              result.pieces[i].id = result.pieces[j].id => i = j
        /\ Ids(result.pieces) = Ids(result.slots)

\* A 2x2 puzzle returned with its pieces out of row-major order.
C10_Witness ==
    /\ pc = "done"
    /\ Rows = 2
    /\ Cols = 2
    /\ result.pieces[1].id = PieceId(1, 1)
    /\ result.pieces[4].id = PieceId(0, 1)

----------------------------------------------------------------------------
(* Coordinates, scatter and the checks of the configuration *)

\* C11: in the PuzzleData generatePuzzle returns, for every cell (r,c) the
\* piece with id r{r}c{c}, wherever the shuffle has put it in the list, has
\* (sourceX, sourceY) = (c*pieceSizeInImage, r*pieceSizeInImage), and the
\* slot with the same id has (x, y) = (c*pieceSize, r*pieceSize).
C11_CoordinateConsistency ==
    pc = "done" =>
        \A row \in 0 .. Rows - 1, col \in 0 .. Cols - 1 :
            /\ HasCell(result.pieces, row, col)
            /\ HasCell(result.slots, row, col)
            /\ AtCell(result.pieces, row, col).sourceX = col * result.pieceSizeInImage
            /\ AtCell(result.pieces, row, col).sourceY = row * result.pieceSizeInImage
            /\ AtCell(result.slots, row, col).x = col * result.pieceSize
            /\ AtCell(result.slots, row, col).y = row * result.pieceSize

\* A 2x2 puzzle returned with the piece of cell (1,1) moved to the front,
\* the two sizes being different.
C11_Witness ==
    /\ pc = "done"
    /\ Rows = 2
    /\ Cols = 2
    /\ result.pieceSize # result.pieceSizeInImage
    /\ result.pieces[1].id = PieceId(1, 1)
    /\ result.pieces[1].sourceX = result.pieceSizeInImage
    /\ result.pieces[2].id = PieceId(0, 0)

\* A grid with a row and a column; an image with its metadata.
ValidGrid(cfg) == cfg.gridSize.rows >= 1 /\ cfg.gridSize.cols >= 1
ValidImage(cfg) == cfg.image.width >= 1 /\ cfg.image.height >= 1

\* The configurations the input constraints allow.
Allowed(cfg) ==
    /\ ValidGrid(cfg)
    /\ ValidImage(cfg)
    /\ cfg.boardMargin >= 0
    /\ cfg.screenWidth > pieceSizeOnScreen(cfg)
    /\ cfg.screenHeight > pieceSizeOnScreen(cfg)

\* The piece's footprint lies in the viewport and below the board.
ScatterContained(cfg, piece) ==
    /\ 0 <= piece.initialX
    /\ piece.initialX + Px(pieceSizeOnScreen(cfg)) <= Px(cfg.screenWidth)
    /\ piece.initialY + Px(pieceSizeOnScreen(cfg)) <= Px(cfg.screenHeight)
    /\ piece.initialY >= Px(cfg.boardMargin + boardHeight(cfg))

\* C12: for every configuration the input constraints allow and every
\* draw, each piece's scatter position satisfies 0 <= initialX,
\* initialX + pieceSize <= screenWidth, initialY + pieceSize <=
\* screenHeight and initialY >= boardMargin + boardHeight.
C12_ScatterContained ==
    Allowed(config) =>
        \A i \in 1 .. Len(pieces) : ScatterContained(config, pieces[i])

\* (Holds under SpecCalls: the scatter is contained when the screen is
\* high enough for the board, the gap and a piece.)
C12_ContainedWhenRoom ==
    (Allowed(config)
       /\ config.screenHeight - spawnAreaY(config) - pieceSizeOnScreen(config) >= 0)
    => \A i \in 1 .. Len(pieces) : ScatterContained(config, pieces[i])

\* The two sampling ranges of lines 150 and 151.
RangeX(cfg) == cfg.screenWidth - pieceSizeOnScreen(cfg)
RangeY(cfg) == cfg.screenHeight - spawnAreaY(cfg) - pieceSizeOnScreen(cfg)

\* C13: when a sampling range is degenerate (RangeY(config) <= 0 or
\* RangeX(config) <= 0), generatePuzzle either rejects the configuration
\* (returns nothing, builds no piece) or places every piece at the origin
\* of the spawn region along that axis: it never adds a sample of a
\* negative range to a coordinate.
C13_DegenerateRangeHandled ==
    (ValidGrid(config) /\ ValidImage(config)) =>
        /\ RangeY(config) <= 0 =>
              \A i \in 1 .. Len(pieces) : pieces[i].initialY = Px(spawnAreaY(config))
        /\ RangeX(config) <= 0 =>
              \A i \in 1 .. Len(pieces) : pieces[i].initialX = 0

\* C14: when gridSize.rows <= 0 or gridSize.cols <= 0 (the image being
\* one with metadata), generatePuzzle rejects the call and returns no
\* PuzzleData, be it an empty one.
C14_InvalidGridRejected ==
    (ValidImage(config) /\ ~ValidGrid(config)) =>
        /\ pc # "done"
        /\ result = NoResult

\* (Holds under SpecCalls: what the code does with such a grid.  Only the
\* negative length of an array stops it; a grid without rows or without
\* columns is returned as a puzzle without pieces, and a column count of 0
\* has divided the two widths.)
C14_EmptyPuzzleReturned ==
    (config.gridSize.rows <= 0 \/ config.gridSize.cols <= 0) =>
        /\ pc = "threw" =>
              AllocationThrows(config.gridSize.rows, config.gridSize.cols)
        /\ pc = "done" =>
              /\ result.pieces = <<>>
              /\ result.slots = <<>>
              /\ config.gridSize.cols = 0 =>
                    /\ result.pieceSize = JsInfinity
                    /\ result.boardSize.width = JsNaN

\* C15: when image.width = 0 or image.height = 0 (the grid being one with
\* a row and a column), generatePuzzle rejects the call: it returns no
\* PuzzleData, and so none whose pieceSizeInImage is 0.
C15_MissingMetadataRejected ==
    ValidGrid(config) =>
        /\ (config.image.width = 0 \/ config.image.height = 0) =>
              /\ pc # "done"
              /\ result = NoResult
        /\ pc = "done" => result.pieceSizeInImage # 0

\* q = floor(a / b), said without a division: q*b <= a < (q+1)*b.
IsFloorOf(q, a, b) == q * b <= a /\ a < (q + 1) * b

\* C16: for every valid configuration of integers, the PuzzleData returned
\* has pieceSize = floor((screenWidth - 2*boardMargin) / cols),
\* pieceSizeInImage = floor(image.width / cols) and boardSize =
\* (pieceSize*cols, pieceSize*rows), so that boardSize.width is at most
\* screenWidth - 2*boardMargin; a 2x3 grid of piece size 100 has a board of
\* 300x200.
C16_Sizes ==
    /\ (pc = "done" /\ ValidGrid(config) /\ ValidImage(config)
           /\ config.boardMargin >= 0) =>
          /\ IsFloorOf(result.pieceSize,
                       config.screenWidth - 2 * config.boardMargin, Cols)
          /\ IsFloorOf(result.pieceSizeInImage, config.image.width, Cols)
          /\ result.boardSize.width = result.pieceSize * Cols
          /\ result.boardSize.height = result.pieceSize * Rows
          /\ result.boardSize.width <= config.screenWidth - 2 * config.boardMargin
    /\ LET cfg == [gridSize |-> [rows |-> 2, cols |-> 3],
                   image |-> [uri |-> "image", width |-> 600, height |-> 400],
                   screenWidth |-> 320, screenHeight |-> 640,
                   boardMargin |-> 10]
       IN /\ pieceSizeOnScreen(cfg) = 100
          /\ boardWidth(cfg) = 300
          /\ boardHeight(cfg) = 200

\* A 1x3 puzzle returned for a screen whose available width, 20, is not a
\* multiple of 3: the board is narrower than the available width.
C16_Witness ==
    /\ pc = "done"
    /\ Rows = 1
    /\ Cols = 3
    /\ config.boardMargin = 2
    /\ ValidImage(config)
    /\ result.pieceSize = 6
    /\ result.boardSize.width = 18

\* How many times x occurs in a list.
Count(list, x) == Cardinality({i \in 1 .. Len(list) : list[i] = x})

\* Two lists hold the same elements, each as many times.
SameElements(a, b) ==
    /\ Len(a) = Len(b)
    /\ \A i \in 1 .. Len(a) : Count(a, a[i]) = Count(b, a[i])

RowMajor(list, rows, cols) ==
    /\ Len(list) = rows * cols
    /\ \A row \in 0 .. rows - 1, col \in 0 .. cols - 1 :
          list[row * cols + col + 1].id = PieceId(row, col)

\* C17: in the PuzzleData generatePuzzle returns, slots is in row-major
\* order (slots[r*cols + c].id = r{r}c{c}) whatever the shuffle did, and the
\* return statement leaves in pieces, and returns, the rows*cols pieces that
\* were generated, each once and unaltered.
C17_ShuffleKeepsPieces ==
    /\ [](pc = "done" => RowMajor(result.slots, Rows, Cols))
    /\ [][pc = "return" =>
            /\ Len(pieces) = Rows * Cols
            /\ SameElements(pieces, pieces')
            /\ result'.pieces = pieces']_vars

\* A 1x3 puzzle returned with its last piece first, its slots in order.
C17_Witness ==
    /\ pc = "done"
    /\ Rows = 1
    /\ Cols = 3
    /\ result.pieces[1].id = PieceId(0, 2)
    /\ result.pieces[2].id = PieceId(0, 0)
    /\ result.slots[3].id = PieceId(0, 2)

----------------------------------------------------------------------------
(* The row and column an app reads from a piece id *)

Cell(row, col) == [row |-> row, col |-> col]

\* C18: both apps read from the id `r${r}c${c}` the row r and the column c of
\* the piece's own cell, so that its slot is (c * pieceSize, r * pieceSize).
C18_IdParsedToOwnCell ==
    /\ appCell # NoResult => appCell = Cell(idRow, idCol)
    /\ stripCell # NoResult => stripCell = Cell(idRow, idCol)

\* What does hold: part_000 reads every id right, App.tsx the ids whose row
\* and column are single digits.
C18_SingleDigitIds ==
    /\ stripCell # NoResult => stripCell = Cell(idRow, idCol)
    /\ (appCell # NoResult /\ idRow <= 9 /\ idCol <= 9)
           => appCell = Cell(idRow, idCol)

----------------------------------------------------------------------------
(* Victory and the end of a drag, in the two apps *)

Victory ==
    IF variant = "App.tsx" THEN gameState = "WON"
    ELSE variant = "part_000" /\ allPiecesPlaced

PlacedIds == IF variant = "App.tsx" THEN snappedPieces ELSE placedPieceIds

\* Victory only with every piece of a puzzle that has pieces in the set.
C19_VictoryOnlyWhenComplete ==
    Victory => /\ level # NoResult
               /\ LevelIds(level) # {}
               /\ PlacedIds = LevelIds(level)

\* The JS thread runs the call that reports the placement of the last piece
\* that is not in the set.
LastPiecePlaced ==
    \/ /\ variant = "App.tsx"
       /\ snapCalls # <<>>
       /\ snapCalls' = Tail(snapCalls)
       /\ snappedPieces \cup {Head(snapCalls)} = LevelIds(level)
    \/ /\ variant = "part_000"
       /\ placedCalls # <<>>
       /\ placedCalls' = Tail(placedCalls)
       /\ placedPieceIds \cup {Head(placedCalls).id} = LevelIds(level)

\* C19: in both apps victory (gameState = 'WON', allPiecesPlaced) holds only
\* when the set of placed ids is the set of all ids of a puzzle that has
\* pieces, and the placement of the last remaining piece makes it true.
C19_Victory ==
    /\ []C19_VictoryOnlyWhenComplete
    /\ [][LastPiecePlaced => Victory']_vars

\* What does hold of the second half: App.tsx, whose updater adds to the
\* latest set, is in state WON once the last piece's placement has run.
C19_AppVictoryAtLastPiece ==
    [][(variant = "App.tsx" /\ LastPiecePlaced) => Victory']_vars

PlayIds == IF level = NoResult THEN {} ELSE LevelIds(level)

\* onEnd of the piece's pan has run (App.tsx; the piece is still mounted).
AppDragEnds(id) ==
    /\ variant = "App.tsx"
    /\ id \in panActive
    /\ id \notin panActive'
    /\ pieceValues'[id] # NoResult

\* What onEnd of App.tsx does with a piece released at its offset.
AppEndOfDrag(id) ==
    LET before == pieceValues[id]
        after == pieceValues'[id]
        half == puzzle.pieceSize \div 2
        within == CloserThan((before.offsetX + half) - (SlotOnScreen(id).x + half),
                             (before.offsetY + half) - (SlotOnScreen(id).y + half),
                             50 * Unit)
    IN  IF within
        THEN /\ after.isSnapped
             /\ snapCalls' = Append(snapCalls, id)
             /\ after.offsetX = SlotOnScreen(id).x
             /\ after.offsetY = SlotOnScreen(id).y
             /\ \A other \in PlayIds \ {id} :
                   [x |-> after.offsetX, y |-> after.offsetY] # SlotOnScreen(other)
        ELSE /\ snapCalls' = snapCalls
             /\ after.isSnapped => before.isSnapped
             /\ after.offsetX = AppPieceData(id).initialX
             /\ after.offsetY = AppPieceData(id).initialY

\* onEnd of the piece's pan has run, the finger having released the piece
\* (part_000).
StripDragEnds(id) ==
    /\ variant = "part_000"
    /\ id \in stripPan \ shownPlaced
    /\ id \notin stripPan'

TargetOf(id) == [x |-> StripPiece(id).targetX, y |-> StripPiece(id).targetY]

\* What onEnd of part_000 does with a piece released at its position.
StripEndOfDrag(id) ==
    LET before == stripValues[id]
        after == stripValues'[id]
        within == CloserThan(before.position.x - TargetOf(id).x,
                             before.position.y - TargetOf(id).y,
                             (35 * StripLayout.pieceSizeOnScreen) \div 100)
    IN  IF within
        THEN /\ after.isSnapped
             /\ Len(placedCalls') = Len(placedCalls) + 1
             /\ SubSeq(placedCalls', 1, Len(placedCalls)) = placedCalls
             /\ placedCalls'[Len(placedCalls')].id = id
             /\ after.position = TargetOf(id)
             /\ \A other \in PlayIds \ {id} : after.position # TargetOf(other)
        ELSE /\ placedCalls' = placedCalls
             /\ after.isSnapped => before.isSnapped
             /\ after.isReturning
             /\ after.returnRunning # "no"
             /\ after.position = before.position

\* The animation that takes a piece of part_000 back has run to its end.
StripReturnEnds(id) ==
    /\ variant = "part_000"
    /\ window # NoResult
    /\ stripValues[id].returnRunning = "spring"
    /\ stripValues'[id].returnRunning = "no"
    /\ ~stripValues'[id].isReturning

----------------------------------------------------------------------------
(* The stretched image and the grid *)

\* The image generateAssets has stretched and reports in data.json.
Stretched == dataJson # NoResult

\* C21: the stretched image has a width W with W * rows = H * cols, H the
\* source's height, so the imageAspectRatio of data.json is cols / rows
\* exactly (and the board of the app, boardHeight = boardWidth /
\* imageAspectRatio, is tiled by rows x cols square cells).
C21_StretchedToGridRatio ==
    Stretched =>
        /\ stretchedWidth(bconfig) * bconfig.gridSize.rows
              = bconfig.imageHeight * bconfig.gridSize.cols
        /\ dataJson.imageAspectRatio.num * dataJson.gridSize.rows
              = dataJson.imageAspectRatio.den * dataJson.gridSize.cols

\* What does hold: the ratio is exact when rows divides H * cols, and the
\* width is never further than half a pixel from H * cols / rows.
C21_ExactWhenDivisible ==
    Stretched =>
        LET rows == bconfig.gridSize.rows
            cols == bconfig.gridSize.cols
            H == bconfig.imageHeight
            W == dataJson.imageAspectRatio.num
        IN  /\ dataJson.imageAspectRatio.den = H
            /\ (H * cols) % rows = 0 => W * rows = H * cols
            /\ 2 * W * rows - 2 * H * cols <= rows
            /\ 2 * H * cols - 2 * W * rows <= rows

----------------------------------------------------------------------------
(* shuffleArray is a uniform shuffle *)

RECURSIVE Factorial(_)
Factorial(n) == IF n = 0 THEN 1 ELSE n * Factorial(n - 1)

\* The call of shuffleArray, from the argument to the returned array.
ShuffleReturns == shuffleResult = NoResult /\ shuffleResult' # NoResult

\* The arrays shuffleArray returns for the argument over all draws.
ShuffleResults(array) ==
    {shuffleArray(array, draws) : draws \in IndexDraws(Len(array))}

\* C22: shuffleArray returns a permutation of its argument and leaves the
\* argument as it was; an array of n distinct elements has n! sequences of
\* index draws, and each of its n! permutations is returned for exactly one
\* of them (as many different results as draw sequences).
C22_UniformShuffle ==
    /\ [][ShuffleReturns =>
            /\ SameElements(shuffleResult'.newArray, shuffleArg)
            /\ shuffleArg' = shuffleArg
            /\ shuffleResult'.newArray
                  = shuffleArray(shuffleArg, shuffleIndexes')]_vars
    /\ [](shuffleResult = NoResult =>
            /\ Cardinality(IndexDraws(Len(shuffleArg)))
                  = Factorial(Len(shuffleArg))
            /\ Cardinality(ShuffleResults(shuffleArg))
                  = Factorial(Len(shuffleArg))
            /\ \A res \in ShuffleResults(shuffleArg) :
                  SameElements(res, shuffleArg))

\* An array of MaxShuffled elements returned in reverse order.
C22_Witness ==
    /\ shuffleResult # NoResult
    /\ Len(shuffleArg) = MaxShuffled
    /\ Len(shuffleResult.newArray) = MaxShuffled
    /\ \A i \in 1 .. MaxShuffled :
          shuffleResult.newArray[i] = shuffleArg[MaxShuffled + 1 - i]

----------------------------------------------------------------------------
(* Invocations of generatePuzzle do not interfere *)

ShapeAt(data, row, col) == AtCell(data.pieces, row, col).shape

\* Edge matching, flat boundary and cardinality of the PuzzleData returned
\* for cfg, read from the PuzzleData alone.
ResultSound(data, cfg) ==
    LET rows == cfg.gridSize.rows
        cols == cfg.gridSize.cols
    IN  /\ Len(data.pieces) = rows * cols
        /\ Len(data.slots) = rows * cols
        /\ \A i, j \in 1 .. Len(data.pieces) :
              data.pieces[i].id = data.pieces[j].id => i = j
        /\ Ids(data.pieces) = Ids(data.slots)
        /\ Ids(data.pieces) =
              {PieceId(row, col) : row \in 0 .. rows - 1, col \in 0 .. cols - 1}
        /\ \A row \in 0 .. rows - 1, col \in 0 .. cols - 1 :
              /\ col + 1 < cols =>
                    Complementary(ShapeAt(data, row, col).right,
                                  ShapeAt(data, row, col + 1).left)
              /\ row + 1 < rows =>
                    Complementary(ShapeAt(data, row, col).bottom,
                                  ShapeAt(data, row + 1, col).top)
              /\ row = 0 => ShapeAt(data, row, col).top = EdgeType_FLAT
              /\ col = 0 => ShapeAt(data, row, col).left = EdgeType_FLAT
              /\ row = rows - 1 => ShapeAt(data, row, col).bottom = EdgeType_FLAT
              /\ col = cols - 1 => ShapeAt(data, row, col).right = EdgeType_FLAT

Returned(k) == runs[k].result # NoResult

\* C23: of two invocations of generatePuzzle whose steps interleave in any
\* order, each returns a PuzzleData that satisfies edge matching, boundary
\* flatness and cardinality for its own configuration, and no step of any
\* invocation changes a PuzzleData that has been returned.
C23_InvocationsIndependent ==
    /\ [](\A k \in DOMAIN runs :
             Returned(k) => ResultSound(runs[k].result, runs[k].config))
    /\ [][\A k \in DOMAIN runs :
             Returned(k) => runs'[k].result = runs[k].result]_vars

\* The first invocation has returned a 1x2 puzzle, with its pieces out of
\* row-major order, while the second, of a 2x1 grid, is in its second loop.
C23_Witness ==
    /\ DOMAIN runs = RunIds
    /\ Returned(1)
    /\ runs[1].config.gridSize = [rows |-> 1, cols |-> 2]
    /\ runs[1].result.pieces[1].id = PieceId(0, 1)
    /\ runs[2].config.gridSize = [rows |-> 2, cols |-> 1]
    /\ runs[2].pc = "pieces"
    /\ Len(runs[2].pieces) = 1

----------------------------------------------------------------------------
(* The edge grids generatePuzzle can produce *)

InOut == {EdgeType_IN, EdgeType_OUT}

\* A choice of IN or OUT for the right edge of every cell but those of the
\* last column and for the bottom edge of every cell but those of the last
\* row.
InteriorChoices(rows, cols) ==
    [right : [0 .. rows - 1 -> [0 .. cols - 2 -> InOut]],
     bottom : [0 .. rows - 2 -> [0 .. cols - 1 -> InOut]]]

\* The one grid with a flat boundary and complementary shared edges that
\* has these right and bottom edges.
GridOf(choice, rows, cols) ==
    [row \in 0 .. rows - 1 |->
       [col \in 0 .. cols - 1 |->
          [top    |-> IF row = 0 THEN EdgeType_FLAT
                      ELSE Complement(choice.bottom[row - 1][col]),
           left   |-> IF col = 0 THEN EdgeType_FLAT
                      ELSE Complement(choice.right[row][col - 1]),
           right  |-> IF col = cols - 1 THEN EdgeType_FLAT
                      ELSE choice.right[row][col],
           bottom |-> IF row = rows - 1 THEN EdgeType_FLAT
                      ELSE choice.bottom[row][col]]]]

\* The right and bottom edges of a grid's cells, the far boundary left out.
ChoiceOf(grid, rows, cols) ==
    [right |-> [row \in 0 .. rows - 1 |->
                  [col \in 0 .. cols - 2 |-> grid[row][col].right]],
     bottom |-> [row \in 0 .. rows - 2 |->
                   [col \in 0 .. cols - 1 |-> grid[row][col].bottom]]]

\* The first loop of generatePuzzle is about to start.
ShapesToBuild == pc = "shapes" /\ pieceShapes = InitialShapes(Rows, Cols)

\* C24: for every rows, cols >= 1 the edge grids the first loop of
\* generatePuzzle can leave, over all outcomes of its draws, are exactly the
\* grids with a flat boundary and complementary shared edges, one for each
\* of the 2^(rows*(cols-1) + (rows-1)*cols) choices of IN/OUT for the
\* interior right and bottom edges; in a grid of one row or one column too.
\* The grid a run has built is one of them.
C24_EveryValidGridProducible ==
    /\ ShapesToBuild =>
          /\ ProducibleGrids(Rows, Cols) =
                {GridOf(choice, Rows, Cols) :
                    choice \in InteriorChoices(Rows, Cols)}
          /\ Cardinality(ProducibleGrids(Rows, Cols))
                = 2 ^ (Rows * (Cols - 1) + (Rows - 1) * Cols)
    /\ ShapesBuilt =>
          /\ ChoiceOf(pieceShapes, Rows, Cols) \in InteriorChoices(Rows, Cols)
          /\ pieceShapes = GridOf(ChoiceOf(pieceShapes, Rows, Cols), Rows, Cols)

\* A grid of one row has been built whose two free right edges came out
\* IN and OUT.
C24_Witness ==
    /\ ShapesBuilt
    /\ Rows = 1
    /\ Cols = 3
    /\ pieceShapes[0][0].right = EdgeType_IN
    /\ pieceShapes[0][1].right = EdgeType_OUT
    /\ pieceShapes[0][2].right = EdgeType_FLAT

----------------------------------------------------------------------------
(* The placements part_000 records *)

\* The JS thread of part_000 runs the next onPiecePlaced call.
PlacementRuns ==
    /\ variant = "part_000"
    /\ placedCalls # <<>>
    /\ placedCalls' = Tail(placedCalls)

\* C25: in part_000 no placement is lost: a run of onPiecePlaced(id) leaves
\* id in placedPieceIds and keeps every id that was in it, also when two
\* pieces were snapped before the component rendered again and both calls
\* start from the same placedPieceIds; so the run for the last piece that
\* is not in the set leaves allPiecesPlaced true.
C25_NoPlacementLost ==
    [][PlacementRuns =>
          /\ Head(placedCalls).id \in placedPieceIds'
          /\ placedPieceIds \subseteq placedPieceIds'
          /\ (placedPieceIds \cup {Head(placedCalls).id} = LevelIds(level)
                 => allPiecesPlaced')]_vars

\* What does hold: the id of the call is in the set afterwards, and nothing
\* is lost by a call queued by the render that is on the screen with the
\* latest set.
C25_KeptWhenRendered ==
    [][PlacementRuns =>
          /\ Head(placedCalls).id \in placedPieceIds'
          /\ Head(placedCalls).placedPieceIds = placedPieceIds
                => placedPieceIds \subseteq placedPieceIds']_vars

----------------------------------------------------------------------------
(* The reset of part_000 *)

\* handleResetLevel runs.
ResetRuns == variant = "part_000" /\ winAnimation # 0 /\ winAnimation' = 0

\* handleResetLevel has run and the component has not rendered since.
ResetPending == variant = "part_000" /\ reshuffle

\* Every piece is unsnapped, at its place in the strip at strip scale, and
\* its gesture is enabled.
AllBackInStrip ==
    /\ window # NoResult
    /\ placedPieceIds = {}
    /\ \A id \in LevelIds(level) :
          /\ ~stripValues[id].isSnapped
          /\ stripValues[id].position = [x |-> StripPiece(id).initialX,
                                         y |-> StripPiece(id).initialY]
          /\ stripValues[id].scale = stripScale(StripLayout)
          /\ id \notin shownPlaced

\* C26: in part_000 handleResetLevel leaves the placed set empty, and after
\* it every piece is eventually unsnapped, at (initialX, initialY) at strip
\* scale, and draggable, whatever drags came before the reset, a drag that
\* grabbed the piece during its return animation and snapped it included.
C26_ResetReturnsPieces ==
    /\ [][ResetRuns => placedPieceIds' = {}]_vars
    /\ ResetPending ~> AllBackInStrip

\* What does hold: the placed set is empty after the reset, and a piece
\* that was shown as placed, has not been placed again, and whose
\* isReturning and isDragging are false when the component renders the
\* reset is put back by that render.
C26_BackUnlessReturning ==
    /\ [][ResetRuns => placedPieceIds' = {}]_vars
    /\ [][(ResetPending /\ ~reshuffle') =>
             \A id \in LevelIds(level) :
                (/\ id \in shownPlaced \ placedPieceIds
                 /\ ~stripValues[id].isReturning
                 /\ ~stripValues[id].isDragging)
                   => LET i == CHOOSE j \in 1 .. Len(pieceData') :
                                    pieceData'[j].id = id
                      IN  /\ ~stripValues'[id].isSnapped
                          /\ stripValues'[id].position =
                                [x |-> pieceData'[i].initialX,
                                 y |-> pieceData'[i].initialY]
                          /\ stripValues'[id].scale = stripScale(StripLayout)]_vars

\* After a reset the piece is still snapped on its slot with isReturning
\* true, and nothing is running or due.
C26_StuckOnBoard ==
    /\ variant = "part_000"
    /\ window # NoResult
    /\ winAnimation = 0
    /\ placedPieceIds = {}
    /\ shownPlaced = {}
    /\ ~reshuffle
    /\ stripPan = {}
    /\ placedCalls = <<>>
    /\ \E id \in LevelIds(level) :
          /\ stripValues[id].isSnapped
          /\ stripValues[id].isReturning
          /\ stripValues[id].returnRunning = "no"
          /\ ~stripValues[id].isDragging
          /\ stripValues[id].position = TargetOf(id)

----------------------------------------------------------------------------
(* A snapped piece of App.tsx and the pan gesture *)

\* A step of a handler of a pan gesture of App.tsx (onStart, onUpdate, onEnd
\* with onFinalize): no React state changes, nothing is rendered and no
\* queued call is run.
AppPanEvent ==
    /\ variant = "App.tsx"
    /\ puzzle # NoResult
    /\ UNCHANGED <<gameAreaLayout, gameState, puzzle, snappedPieces, screen>>
    /\ \/ snapCalls' = snapCalls
       \/ /\ Len(snapCalls') = Len(snapCalls) + 1
          /\ SubSeq(snapCalls', 1, Len(snapCalls)) = snapCalls

\* The piece is a mounted DraggablePiece whose isSnapped is true.
AppSnapped(id) ==
    /\ variant = "App.tsx"
    /\ puzzle # NoResult
    /\ id \in LevelIds(level)
    /\ Mounted(id)
    /\ pieceValues[id].isSnapped

\* The step invokes onSnap for the piece.
OnSnapInvoked(id) ==
    /\ Len(snapCalls') = Len(snapCalls) + 1
    /\ snapCalls'[Len(snapCalls')] = id

\* The step leaves the piece snapped where it is, at its scale.
AppPieceKept(id) ==
    /\ pieceValues'[id].isSnapped
    /\ pieceValues'[id].offsetX = pieceValues[id].offsetX
    /\ pieceValues'[id].offsetY = pieceValues[id].offsetY
    /\ pieceValues'[id].scale = pieceValues[id].scale

\* C27: in App.tsx, once a piece's isSnapped is true, no event of a pan on
\* that piece (start, update or end) changes its offset or its scale, sends
\* it back to the tray or invokes onSnap again, until reset() is called.
C27_SnappedPieceIgnoresPan ==
    [][\A id \in PlayIds :
          (AppSnapped(id) /\ AppPanEvent)
             => (AppPieceKept(id) /\ ~OnSnapInvoked(id))]_vars

\* What does hold: a pan event leaves a snapped piece snapped, at its slot
\* and at its scale.
C27_SnappedPieceStays ==
    [][\A id \in PlayIds :
          (AppSnapped(id) /\ AppPanEvent)
             => /\ AppPieceKept(id)
                /\ pieceValues'[id].offsetX = SlotOnScreen(id).x
                /\ pieceValues'[id].offsetY = SlotOnScreen(id).y]_vars

\* A pan on a piece that is snapped has ended and has handed the piece's id
\* to the JS thread a second time.
C27_SnappedTwice ==
    /\ variant = "App.tsx"
    /\ puzzle # NoResult
    /\ \E id \in LevelIds(level) :
          /\ Mounted(id)
          /\ pieceValues[id].isSnapped
          /\ snapCalls = <<id, id>>

----------------------------------------------------------------------------
(* The square a piece is cut from *)

\* The pieces pushed so far, of a call whose configuration is in the input
\* constraints.
PushedPieces ==
    IF config = NoResult THEN {}
    ELSE {pieces[i] : i \in 1 .. Len(pieces)}

\* The square of the piece does not leave the image to the left or right.
InsideWidth(piece) ==
    /\ 0 <= piece.sourceX
    /\ piece.sourceX + pieceSizeInImage(config) <= config.image.width

\* The square of the piece does not leave the image at the top or bottom.
InsideHeight(piece) ==
    /\ 0 <= piece.sourceY
    /\ piece.sourceY + pieceSizeInImage(config) <= config.image.height

\* C28: for every configuration with rows, cols >= 1 and image.width,
\* image.height >= 1, the square of side pieceSizeInImage at (sourceX,
\* sourceY) of every piece lies inside the source image on both axes.
C28_CropInsideImage ==
    \A piece \in PushedPieces : InsideWidth(piece) /\ InsideHeight(piece)

\* What does hold: the square is inside the image from left to right and
\* does not start above it, and it is inside from top to bottom when rows
\* squares are not higher than the image.
C28_CropInsideWidth ==
    \A piece \in PushedPieces :
       /\ InsideWidth(piece)
       /\ 0 <= piece.sourceY
       /\ (config.gridSize.rows * pieceSizeInImage(config) <= config.image.height)
             => InsideHeight(piece)

\* The only piece of a 1 x 1 grid on an image wider than high: its square
\* has the image's width as its side.
C28_SquareHigherThanImage ==
    /\ config # NoResult
    /\ config.gridSize = [rows |-> 1, cols |-> 1]
    /\ config.image.width > config.image.height
    /\ Len(pieces) = 1
    /\ pieces[1].sourceY + pieceSizeInImage(config) > config.image.height

=============================================================================
